---------------------------- MODULE Spec2Model ----------------------------
(***************************************************************************)
(* A model of the plugin runtime kernel of ApexBridgeUI (src-tauri/src/    *)
(* plugin): the lifecycle state machine and plugin manager, the permission *)
(* store, the filesystem and network guards and the per-plugin storage.    *)
(*                                                                         *)
(* Strings the code inspects character by character (permission strings,   *)
(* scopes, hosts, paths) are sequences of one-character strings; a         *)
(* permission type name, which the code only compares as a whole and which *)
(* holds no ':', is one symbol of such a sequence.                         *)
(***************************************************************************)
EXTENDS Integers, Sequences, FiniteSets, TLC

VARIABLES
    plugins,            \* PluginRegistry.plugins: id -> metadata (registered ids only)
    manifests,          \* PluginRegistry.manifests: id -> manifest
    activation_order,   \* PluginRegistry.activation_order
    resources,          \* ResourceTracker.resources: id -> set of tracked resources
    install_dirs,       \* the directories <app-data>/plugins/<id> that exist
    permissions,        \* the manager's PermissionManager.permissions: id -> records
    perm_file,          \* <app-data>/plugin-permissions.json: NoFile or id -> records
    guard_permissions,  \* PermissionManager.permissions of the guards' own instance
    auto_approve,       \* PermissionManager.auto_approve
    audit_log,          \* audit entries appended since the running operation began
    pc,                 \* per thread: position inside the manager call in progress
    op,                 \* per thread: the public operation in progress and its plugin
    local,              \* per thread: the locals of the call in progress
    trace,              \* per thread: the state writes of the call in progress
    ret,                \* per thread: what the last completed call returned
    fs,                 \* the file system: directories, files and symbolic links
    watchers,           \* FileSystemAPI.watchers: id -> watched directory
    guard_log,          \* guards' audit entries appended since the operation began
    rate_limiters,      \* NetworkProxy.rate_limiters: id -> token bucket
    cache,              \* NetworkProxy.cache: cache key -> entry
    storage,            \* StorageAPI.storage: id -> data (loaded ids only)
    storage_files,      \* plugin-data/<id>/storage.json: path -> contents
    latest,             \* per id and key: the value of the latest set still standing
    window,             \* per id: the rate-limit checks counted in a window of time
    today,              \* the date of Utc::now(), in days
    log_files,          \* audit-logs/: the names of the daily files, without .jsonl
    logged_days         \* the days on which an audit entry was appended

vars == <<plugins, manifests, activation_order, resources, install_dirs,
          permissions, perm_file, guard_permissions, auto_approve,
          audit_log, pc, op, local, trace, ret, fs, watchers, guard_log,
          rate_limiters, cache, storage, storage_files, latest, window,
          today, log_files, logged_days>>

-----------------------------------------------------------------------------
(* Bounds of the model *)

MaxRecords == 1     \* permission records kept per plugin before grants stop
MaxElapsed == 1     \* ticks a token bucket is left alone before short ticks stop
MaxTicks == 6       \* ticks for which a window of rate-limit checks is followed
MaxDeps == 2        \* dependencies a manifest declares
MaxDay == 100       \* days the clock advances after the audit logger is made

-----------------------------------------------------------------------------
(* Sequence and string helpers *)

Range(s) == {s[i] : i \in 1..Len(s)}

starts_with(s, prefix) ==
    /\ Len(prefix) <= Len(s)
    /\ SubSeq(s, 1, Len(prefix)) = prefix

ends_with(s, suffix) ==
    /\ Len(suffix) <= Len(s)
    /\ SubSeq(s, Len(s) - Len(suffix) + 1, Len(s)) = suffix

contains(s, c) == c \in Range(s)

\* index of the first occurrence of c in s, 0 when there is none
find(s, c) ==
    IF contains(s, c)
    THEN CHOOSE i \in 1..Len(s) : s[i] = c /\ \A j \in 1..(i - 1) : s[j] # c
    ELSE 0

\* str::split(c): every piece between occurrences of c
RECURSIVE split(_, _)
split(s, c) ==
    LET i == find(s, c)
    IN IF i = 0 THEN <<s>>
       ELSE <<SubSeq(s, 1, i - 1)>> \o split(SubSeq(s, i + 1, Len(s)), c)

\* str::splitn(2, c): cut at the first occurrence of c only
splitn2(s, c) ==
    LET i == find(s, c)
    IN IF i = 0 THEN <<s>>
       ELSE <<SubSeq(s, 1, i - 1), SubSeq(s, i + 1, Len(s))>>

Star == <<"*">>
AppDataSlash == <<"A", "p", "p", "D", "a", "t", "a", "/">>

-----------------------------------------------------------------------------
(* PluginState and PluginError (mod.rs) *)

PluginState == {"Uninstalled", "Installed", "Loaded", "Activated", "Running", "Deactivated"}

mutant_can_transition_to(from, target) ==
    <<from, target>> \in
        { <<"Uninstalled", "Installed">>, <<"Installed", "Loaded">>,
          <<"Loaded", "Activated">>, <<"Activated", "Running">>,
          <<"Running", "Deactivated">>, <<"Deactivated", "Installed">>,
          <<"Installed", "Uninstalled">>, <<"Deactivated", "Uninstalled">>,
          <<"Deactivated", "Activated">>, <<"Running", "Installed">> }

can_transition_to(from, target) ==
    <<from, target>> \in
        { <<"Uninstalled", "Installed">>, <<"Installed", "Loaded">>,
          <<"Loaded", "Activated">>, <<"Activated", "Running">>,
          <<"Running", "Deactivated">>, <<"Deactivated", "Installed">>,
          <<"Installed", "Uninstalled">>, <<"Deactivated", "Uninstalled">>,
          <<"Deactivated", "Activated">> }

Ok == [kind |-> "Ok"]
NotFound(p) == [kind |-> "NotFound", id |-> p]
InvalidStateTransition(f, t) == [kind |-> "InvalidStateTransition", from |-> f, to |-> t]
PermissionDenied(why) == [kind |-> "PermissionDenied", detail |-> why]
ManifestValidation == [kind |-> "ManifestValidation"]


-----------------------------------------------------------------------------
(* Permission types, scopes and matching (permission_manager.rs) *)

PermissionType ==
    {"filesystem.read", "filesystem.write", "network.request", "storage.read",
     "storage.write", "system.notify", "ui.registerCommand", "ui.registerView"}

NoType == "None"

\* PermissionType::from_str on the text before the first ':'
from_str(s) == IF Len(s) = 1 /\ s[1] \in PermissionType THEN s[1] ELSE NoType

is_valid_domain_pattern(pattern) ==
    IF starts_with(pattern, <<"*", ".">>)
    THEN LET domain == SubSeq(pattern, 3, Len(pattern))
         IN contains(domain, ".") /\ ~contains(domain, "*")
    ELSE contains(pattern, ".") /\ ~contains(pattern, " ")

validate_scope(permission_type, resource_scope) ==
    IF resource_scope = <<>>
    THEN PermissionDenied("Resource scope cannot be empty")
    ELSE IF permission_type \in {"filesystem.read", "filesystem.write"}
    THEN IF ~starts_with(resource_scope, AppDataSlash) /\ resource_scope # Star
         THEN PermissionDenied("File system access must be within AppData/")
         ELSE Ok
    ELSE IF permission_type = "network.request"
    THEN IF resource_scope # Star /\ ~is_valid_domain_pattern(resource_scope)
         THEN PermissionDenied("Invalid domain pattern")
         ELSE Ok
    ELSE Ok

\* path.replace('\\', "/")
normalize_separators(path) ==
    [i \in 1..Len(path) |-> IF path[i] = "\\" THEN "/" ELSE path[i]]

matches_scope(path, scope) ==
    LET normalized_path == normalize_separators(path)
    IN IF ends_with(scope, <<"/", "*">>)
       THEN starts_with(normalized_path, SubSeq(scope, 1, Len(scope) - 2))
       ELSE normalized_path = scope

mutant_matches_domain(domain, pattern) ==
    IF starts_with(pattern, <<"*", ".">>)
    THEN ends_with(domain, SubSeq(pattern, 3, Len(pattern)))
    ELSE domain = pattern

matches_domain(domain, pattern) ==
    IF starts_with(pattern, <<"*", ".">>)
    THEN LET suffix == SubSeq(pattern, 3, Len(pattern))
         IN IF domain = suffix THEN TRUE
            ELSE IF ends_with(domain, suffix)
            THEN LET prefix_len == Len(domain) - Len(suffix)
                 IN prefix_len >= 1 /\ domain[prefix_len] = "."
            ELSE FALSE
    ELSE domain = pattern

PluginPermission(t, scope) ==
    [permission_type |-> t, resource_scope |-> scope, granted |-> TRUE]

AuditLogEntry(p, t, resource, action, result, error) ==
    [plugin_id |-> p, permission_type |-> t, resource |-> resource,
     action |-> action, result |-> result, error_message |-> error]

NoError == "None"

has_permission(perms, p, permission_str) ==
    LET parts == splitn2(permission_str, ":")
        permission_type == from_str(parts[1])
        resource_scope == IF Len(parts) > 1 THEN parts[2] ELSE Star
    IN /\ permission_type # NoType
       /\ p \in DOMAIN perms
       /\ \E i \in 1..Len(perms[p]) :
            /\ perms[p][i].permission_type = permission_type
            /\ perms[p][i].granted
            /\ \/ perms[p][i].resource_scope = Star
               \/ matches_scope(resource_scope, perms[p][i].resource_scope)

\* the first record of the right type that admits the domain, 0 when none does
network_match(perms, p, domain) ==
    IF p \notin DOMAIN perms THEN 0
    ELSE LET hit(i) == /\ perms[p][i].permission_type = "network.request"
                       /\ perms[p][i].granted
                       /\ \/ perms[p][i].resource_scope = Star
                          \/ matches_domain(domain, perms[p][i].resource_scope)
         IN IF \E i \in 1..Len(perms[p]) : hit(i)
            THEN CHOOSE i \in 1..Len(perms[p]) : hit(i) /\ \A j \in 1..(i - 1) : ~hit(j)
            ELSE 0

validate_network_permission(perms, p, domain) == network_match(perms, p, domain) # 0

\* the audit entry validate_network_permission leaves through log_validation
validate_network_log(perms, p, domain) ==
    AuditLogEntry(p, "network.request", domain, "validate",
                  validate_network_permission(perms, p, domain),
                  IF p \notin DOMAIN perms THEN "No permissions found"
                  ELSE IF validate_network_permission(perms, p, domain) THEN NoError
                  ELSE "No matching permission")


-----------------------------------------------------------------------------
(* PermissionManager operations.  A store value st holds the instance's   *)
(* in-memory records, the contents of plugin-permissions.json and the     *)
(* audit entries appended so far; every operation returns the store with  *)
(* the error it raised (Ok when none).                                     *)

EmptyMap == [q \in {} |-> <<>>]

Store(perms, file, log) ==
    [permissions |-> perms, file |-> file, log |-> log, err |-> Ok]

\* PermissionStorage::save: the whole in-memory map replaces the file
save_permissions(perms) == [exists |-> TRUE, permissions |-> perms]

\* PermissionStorage::load: an absent file is an empty store
load(file) == IF file.exists THEN file.permissions ELSE EmptyMap

\* self.permissions.entry(p).or_insert_with(Vec::new).push(record)
push_record(perms, p, record) ==
    IF p \in DOMAIN perms
    THEN [perms EXCEPT ![p] = Append(@, record)]
    ELSE (p :> <<record>>) @@ perms

remove_key(map, p) == [q \in (DOMAIN map) \ {p} |-> map[q]]

grant_permission(st, p, permission_type, resource_scope) ==
    LET v == validate_scope(permission_type, resource_scope)
        perms2 == push_record(st.permissions, p,
                              PluginPermission(permission_type, resource_scope))
    IN IF v # Ok THEN [st EXCEPT !.err = v]
       ELSE [permissions |-> perms2,
             file |-> save_permissions(perms2),
             log |-> Append(st.log, AuditLogEntry(p, permission_type, resource_scope,
                                                  "grant", TRUE, NoError)),
             err |-> Ok]

mutant_request_user_authorization(st, auto, p, permission_type, resource_scope) ==
    [st |-> [st EXCEPT !.log = Append(@, AuditLogEntry(p, permission_type,
                                     resource_scope, "request", TRUE, NoError))],
     approved |-> TRUE]

\* returns the store (with the "request" entry when approving) and the answer
request_user_authorization(st, auto, p, permission_type, resource_scope) ==
    IF ~auto
    THEN [st |-> st, approved |-> FALSE]
    ELSE [st |-> [st EXCEPT !.log = Append(@, AuditLogEntry(p, permission_type,
                                     resource_scope, "request", TRUE, NoError))],
          approved |-> TRUE]

mutant_request_permission(st, auto, p, permission_str) ==
    LET parts == splitn2(permission_str, ":")
        permission_type == from_str(parts[1])
        resource_scope == IF Len(parts) > 1 THEN parts[2] ELSE Star
        v == validate_scope(permission_type, resource_scope)
        a == request_user_authorization(st, auto, p, permission_type, resource_scope)
    IN IF permission_type = NoType
       THEN [st EXCEPT !.err = PermissionDenied("Unknown permission type")]
       ELSE IF ~a.approved
       THEN [st EXCEPT !.err = PermissionDenied("Permission denied for plugin")]
       ELSE IF v # Ok THEN [a.st EXCEPT !.err = v]
       ELSE grant_permission(a.st, p, permission_type, resource_scope)

request_permission(st, auto, p, permission_str) ==
    LET parts == splitn2(permission_str, ":")
        permission_type == from_str(parts[1])
        resource_scope == IF Len(parts) > 1 THEN parts[2] ELSE Star
        v == validate_scope(permission_type, resource_scope)
        a == request_user_authorization(st, auto, p, permission_type, resource_scope)
    IN IF permission_type = NoType
       THEN [st EXCEPT !.err = PermissionDenied("Unknown permission type")]
       ELSE IF v # Ok THEN [st EXCEPT !.err = v]
       ELSE IF a.approved
       THEN grant_permission(a.st, p, permission_type, resource_scope)
       ELSE [st EXCEPT !.err = PermissionDenied("Permission denied for plugin")]

\* revoke_all_permissions that clears the whole map
mutant_revoke_all_permissions(st, p) ==
    [permissions |-> EmptyMap,
     file |-> save_permissions(EmptyMap),
     log |-> Append(st.log, AuditLogEntry(p, "filesystem.read", Star,
                                          "revoke_all", TRUE, NoError)),
     err |-> Ok]

revoke_all_permissions(st, p) ==
    LET perms2 == remove_key(st.permissions, p)
    IN [permissions |-> perms2,
        file |-> save_permissions(perms2),
        log |-> Append(st.log, AuditLogEntry(p, "filesystem.read", Star,
                                             "revoke_all", TRUE, NoError)),
        err |-> Ok]

\* the loop of activate_plugin over manifest.permissions, under one lock
RECURSIVE request_missing(_, _, _, _)
request_missing(st, auto, p, wanted) ==
    IF wanted = <<>> THEN st
    ELSE IF has_permission(st.permissions, p, Head(wanted))
    THEN request_missing(st, auto, p, Tail(wanted))
    ELSE LET r == request_permission(st, auto, p, Head(wanted))
         IN IF r.err # Ok THEN r ELSE request_missing(r, auto, p, Tail(wanted))


-----------------------------------------------------------------------------
(* Plugins, manifests and archives the operations are tried on *)

PluginIds == {"p1", "p2"}
NoPlugin == "None"

PermFsRead == <<"filesystem.read", ":">> \o AppDataSlash \o <<"p", "/", "*">>
PermNet == <<"network.request", ":", "*", ".", "e", ".", "c">>
PermFsOutside == <<"filesystem.read", ":", "/", "e", "t", "c">>
PermUnknown == <<"b", "o", "g", "u", "s", ":", "*">>

\* dependencies: the keys of manifest.dependencies, in the order the HashMap
\* yields them
PluginManifest(name, perms, commands, views) ==
    [name |-> name, permissions |-> perms, commands |-> commands, views |-> views,
     dependencies |-> <<>>]

NoManifest == PluginManifest(NoPlugin, <<>>, {}, {})

\* an archive: whether its manifest.json parses and validates, and the manifest
Archive(valid, manifest) == [valid |-> valid, manifest |-> manifest]
NoZip == Archive(FALSE, NoManifest)

Archives ==
    { Archive(TRUE, PluginManifest(p, <<>>, {"c.a"}, {})) : p \in PluginIds }
    \cup { Archive(TRUE, PluginManifest("p1", <<PermFsRead, PermNet>>, {"c.a"}, {"v.a"})) }

\* the permission strings handed to PluginManager::grant_permission
GrantStrings == {PermFsRead, PermNet, PermFsOutside, PermUnknown}

-----------------------------------------------------------------------------
(* PluginRegistry (plugin_manager.rs) *)

PluginMetadata(state) == [state |-> state]

StateOf(reg, p) == IF p \in DOMAIN reg THEN reg[p].state ELSE NoPlugin

mutant_update_state(reg, p, new_state) ==
    IF p \notin DOMAIN reg
    THEN [err |-> NotFound(p), plugins |-> reg]
    ELSE [err |-> Ok, plugins |-> [reg EXCEPT ![p].state = new_state]]

update_state(reg, p, new_state) ==
    IF p \notin DOMAIN reg
    THEN [err |-> NotFound(p), plugins |-> reg]
    ELSE IF ~can_transition_to(reg[p].state, new_state)
    THEN [err |-> InvalidStateTransition(reg[p].state, new_state), plugins |-> reg]
    ELSE [err |-> Ok, plugins |-> [reg EXCEPT ![p].state = new_state]]

\* register: both maps take the new entry, whatever was there before
register(map, p, value) == (p :> value) @@ remove_key(map, p)

\* activation_order.retain(|id| id != plugin_id)
RECURSIVE retain_other(_, _)
retain_other(order, p) ==
    IF order = <<>> THEN <<>>
    ELSE IF Head(order) = p THEN retain_other(Tail(order), p)
    ELSE <<Head(order)>> \o retain_other(Tail(order), p)

mutant_add_to_activation_order(order, p) == Append(order, p)

add_to_activation_order(order, p) ==
    IF p \in Range(order) THEN order ELSE Append(order, p)

\* the resources execute_activate_hook tracks for a manifest
Contributions(manifest) ==
    { [kind |-> "Command", id |-> c] : c \in manifest.commands }
    \cup { [kind |-> "View", id |-> v] : v \in manifest.views }

mutant_remove_dir_all(dirs, p) == dirs

\* std::fs::remove_dir_all(&metadata.install_path) when it exists
remove_dir_all(dirs, p) == dirs \ {p}


(* AuditLogger (audit_logger.rs).  The clock is the number of days since   *)
(* 2023-11-01; a daily file is named by its date as "%Y-%m-%d" prints it,  *)
(* and rotate_old_logs compares the names as strings.                      *)

retention == 30

is_leap_year(y) == (y % 4 = 0 /\ y % 100 # 0) \/ y % 400 = 0

days_in_month(y, m) ==
    IF m \in {4, 6, 9, 11} THEN 30
    ELSE IF m = 2 THEN (IF is_leap_year(y) THEN 29 ELSE 28)
    ELSE 31

\* the date n days after the first of month m of year y
RECURSIVE NaiveDate(_, _, _)
NaiveDate(n, y, m) ==
    IF n < days_in_month(y, m) THEN <<y, m, n + 1>>
    ELSE NaiveDate(n - days_in_month(y, m), IF m = 12 THEN y + 1 ELSE y,
                   IF m = 12 THEN 1 ELSE m + 1)

Digit(k) == <<"0", "1", "2", "3", "4", "5", "6", "7", "8", "9">>[k + 1]

\* format("%Y-%m-%d")
format(day) ==
    LET d == NaiveDate(day, 2023, 11)
    IN <<Digit(d[1] \div 1000), Digit((d[1] \div 100) % 10), Digit((d[1] \div 10) % 10),
         Digit(d[1] % 10), "-", Digit(d[2] \div 10), Digit(d[2] % 10), "-",
         Digit(d[3] \div 10), Digit(d[3] % 10)>>

\* the byte of a character of a date
byte(c) == IF c = "-" THEN 45 ELSE 48 + (CHOOSE k \in 0..9 : Digit(k) = c)

\* a < b for two strings
RECURSIVE str_lt(_, _)
str_lt(a, b) ==
    IF b = <<>> THEN FALSE
    ELSE IF a = <<>> THEN TRUE
    ELSE IF byte(Head(a)) # byte(Head(b)) THEN byte(Head(a)) < byte(Head(b))
    ELSE str_lt(Tail(a), Tail(b))

get_log_file_path(now) == format(now)

mutant_rotate_old_logs(files, now) ==
    {file_name \in files : str_lt(format(now - retention), file_name)}

rotate_old_logs(files, now) ==
    {file_name \in files : ~str_lt(file_name, format(now - retention))}

\* append_log_entry, then rotate_old_logs
log_permission_check(files, now) ==
    rotate_old_logs(files \cup {get_log_file_path(now)}, now)

\* resolve_dependencies: a depth-first visit that marks a plugin while its
\* dependencies are visited and appends it to the order after them
DependencyError(why) == [kind |-> "DependencyError", detail |-> why]

Visit(order, visited, temp_mark, err) ==
    [order |-> order, visited |-> visited, temp_mark |-> temp_mark, err |-> err]

RECURSIVE visit_dependency(_, _, _)
RECURSIVE visit_dependencies(_, _, _)

mutant_visit_dependencies(mans, deps, v) ==
    IF deps = <<>> \/ v.err # Ok THEN v
    ELSE visit_dependency(mans, Head(deps), v)

\* the loop over manifest.dependencies, left at the first error
visit_dependencies(mans, deps, v) ==
    IF deps = <<>> \/ v.err # Ok THEN v
    ELSE visit_dependencies(mans, Tail(deps), visit_dependency(mans, Head(deps), v))

mutant_visit_dependency(mans, p, v) ==
    IF p \in v.visited \cup v.temp_mark THEN v
    ELSE IF p \notin DOMAIN mans
    THEN [v EXCEPT !.temp_mark = @ \cup {p}, !.err = NotFound(p)]
    ELSE LET w == visit_dependencies(mans, mans[p].dependencies,
                                     [v EXCEPT !.temp_mark = @ \cup {p}])
         IN IF w.err # Ok THEN w
            ELSE Visit(Append(w.order, p), w.visited \cup {p}, w.temp_mark \ {p}, Ok)

visit_dependency(mans, p, v) ==
    IF p \in v.visited THEN v
    ELSE IF p \in v.temp_mark
    THEN [v EXCEPT !.err = DependencyError("Circular dependency detected")]
    ELSE IF p \notin DOMAIN mans
    THEN [v EXCEPT !.temp_mark = @ \cup {p}, !.err = NotFound(p)]
    ELSE LET w == visit_dependencies(mans, mans[p].dependencies,
                                     [v EXCEPT !.temp_mark = @ \cup {p}])
         IN IF w.err # Ok THEN w
            ELSE Visit(Append(w.order, p), w.visited \cup {p}, w.temp_mark \ {p}, Ok)

resolve_dependencies(mans, p) ==
    IF p \notin DOMAIN mans THEN Visit(<<>>, {}, {}, NotFound(p))
    ELSE visit_dependency(mans, p, Visit(<<>>, {}, {}, Ok))

-----------------------------------------------------------------------------
(* PluginManager calls.  Each action below is one step of a call: the part *)
(* of the method that runs under one acquisition of a lock.  A thread that *)
(* has started a call can only take that call's next step.                 *)

regVars == <<plugins, manifests, activation_order>>
permVars == <<permissions, perm_file, audit_log>>
auditVars == <<today, log_files, logged_days>>
diskVars == <<install_dirs, auditVars>>
fsVars == <<fs, watchers, guard_log>>
netVars == <<rate_limiters, cache, window>>
storageVars == <<storage, storage_files, latest>>
guardVars == <<guard_permissions, fsVars, netVars, storageVars>>

InitLocal ==
    [manifest |-> NoManifest, current_state |-> NoPlugin, e |-> Ok, sub |-> Ok,
     start |-> NoPlugin, hook_state |-> NoPlugin]

NoRet ==
    [name |-> "none", p |-> NoPlugin, err |-> Ok, start |-> NoPlugin,
     hook_state |-> NoPlugin, sub |-> Ok, e |-> Ok, to |-> NoPlugin]

Goto(t, label, loc) ==
    /\ pc' = [pc EXCEPT ![t] = label]
    /\ local' = [local EXCEPT ![t] = loc]
    /\ UNCHANGED ret

Return(t, err, loc) ==
    /\ pc' = [pc EXCEPT ![t] = "idle"]
    /\ local' = [local EXCEPT ![t] = InitLocal]
    /\ ret' = [ret EXCEPT ![t] =
                 [name |-> op[t].name, p |-> op[t].p, err |-> err, start |-> loc.start,
                  hook_state |-> loc.hook_state, sub |-> loc.sub, e |-> loc.e,
                  to |-> NoPlugin]]

\* where activate_plugin's result goes: to the caller, or into the rollback
AfterActivate(t, err, loc) ==
    IF op[t].name = "rollback" /\ err # Ok
    THEN Goto(t, "deact_manifest", [loc EXCEPT !.e = err])
    ELSE Return(t, err, loc)

\* where deactivate_plugin's result goes: to the caller, into uninstall_plugin
\* (which propagates an error) or into the rollback (which drops it)
AfterDeactivate(t, err, loc) ==
    IF op[t].name = "uninstall"
    THEN IF err = Ok THEN Goto(t, "uninst_remove", loc) ELSE Return(t, err, loc)
    ELSE IF op[t].name = "rollback"
    THEN Goto(t, "rb_reset", [loc EXCEPT !.sub = err])
    ELSE Return(t, err, loc)

Write(t, p, from, to) == trace' = [trace EXCEPT ![t] = Append(@, <<p, from, to>>)]

Call(t, name, p, zip, label) ==
    /\ pc[t] = "idle"
    /\ op' = [op EXCEPT ![t] = [name |-> name, p |-> p, zip |-> zip]]
    /\ pc' = [pc EXCEPT ![t] = label]
    /\ local' = [local EXCEPT ![t] = [InitLocal EXCEPT !.start = StateOf(plugins, p)]]
    /\ trace' = [trace EXCEPT ![t] = <<>>]
    /\ audit_log' = <<>>
    /\ ret' = [ret EXCEPT ![t] = NoRet]
    /\ UNCHANGED <<regVars, resources, diskVars, permissions, perm_file,
                   guardVars, auto_approve>>

(* load_plugin_from_zip *)

load_plugin_from_zip_call(t, zip) ==
    /\ Call(t, "install", zip.manifest.name, zip, "inst_extract")

\* extraction into a fresh temporary directory, the manifest check and the
\* move to plugins/<id>
load_plugin_from_zip_extract(t) ==
    /\ pc[t] = "inst_extract"
    /\ IF ~op[t].zip.valid
       THEN /\ UNCHANGED install_dirs
            /\ Return(t, ManifestValidation, local[t])
       ELSE /\ install_dirs' = install_dirs \cup {op[t].p}
            /\ Goto(t, "inst_register", [local[t] EXCEPT !.manifest = op[t].zip.manifest])
    /\ UNCHANGED <<regVars, resources, permVars, guardVars, auditVars, auto_approve, op,
                   trace>>

load_plugin_from_zip_register(t) ==
    /\ pc[t] = "inst_register"
    /\ plugins' = register(plugins, op[t].p, PluginMetadata("Installed"))
    /\ manifests' = register(manifests, op[t].p, local[t].manifest)
    /\ Write(t, op[t].p, StateOf(plugins, op[t].p), "Installed")
    /\ Return(t, Ok, local[t])
    /\ UNCHANGED <<activation_order, resources, diskVars, permVars, guardVars,
                   auto_approve, op>>

(* activate_plugin *)

activate_plugin_call(t, p) == Call(t, "activate", p, NoZip, "act_manifest")

activate_plugin_manifest(t) ==
    /\ pc[t] = "act_manifest"
    /\ IF op[t].p \notin DOMAIN manifests
       THEN AfterActivate(t, NotFound(op[t].p), local[t])
       ELSE Goto(t, "act_perms", [local[t] EXCEPT !.manifest = manifests[op[t].p]])
    /\ UNCHANGED <<regVars, resources, diskVars, permVars, guardVars,
                   auto_approve, op, trace>>

\* the permission step with the transition to Loaded made before the requests
mutant_activate_plugin_permissions(t) ==
    /\ pc[t] = "act_perms"
    /\ LET r == request_missing(Store(permissions, perm_file, audit_log), auto_approve,
                                op[t].p, local[t].manifest.permissions)
       IN /\ permissions' = r.permissions
          /\ perm_file' = r.file
          /\ audit_log' = r.log
          /\ plugins' = update_state(plugins, op[t].p, "Loaded").plugins
          /\ IF r.err # Ok
             THEN AfterActivate(t, r.err, local[t])
             ELSE Goto(t, "act_state", local[t])
    /\ UNCHANGED <<manifests, activation_order, resources, diskVars, guardVars,
                   auto_approve, op, trace>>

activate_plugin_permissions(t) ==
    /\ pc[t] = "act_perms"
    /\ LET r == request_missing(Store(permissions, perm_file, audit_log), auto_approve,
                                op[t].p, local[t].manifest.permissions)
       IN /\ permissions' = r.permissions
          /\ perm_file' = r.file
          /\ audit_log' = r.log
          /\ IF r.err # Ok
             THEN AfterActivate(t, r.err, local[t])
             ELSE Goto(t, "act_state", local[t])
    /\ UNCHANGED <<regVars, resources, diskVars, guardVars, auto_approve, op, trace>>

activate_plugin_state(t) ==
    /\ pc[t] = "act_state"
    /\ IF op[t].p \notin DOMAIN plugins
       THEN AfterActivate(t, NotFound(op[t].p), local[t])
       ELSE Goto(t, IF plugins[op[t].p].state # "Deactivated" THEN "act_loaded"
                    ELSE "act_activated",
                 [local[t] EXCEPT !.current_state = plugins[op[t].p].state])
    /\ UNCHANGED <<regVars, resources, diskVars, permVars, guardVars,
                   auto_approve, op, trace>>

\* one registry.update_state(..)? of activate_plugin
ActivateUpdate(t, label, new_state, next) ==
    /\ pc[t] = label
    /\ LET r == update_state(plugins, op[t].p, new_state)
       IN /\ plugins' = r.plugins
          /\ IF r.err # Ok
             THEN /\ AfterActivate(t, r.err, local[t])
                  /\ UNCHANGED trace
             ELSE /\ Goto(t, next, local[t])
                  /\ Write(t, op[t].p, plugins[op[t].p].state, new_state)
    /\ UNCHANGED <<manifests, activation_order, resources, diskVars, permVars,
                   guardVars, auto_approve, op>>

activate_plugin_loaded(t) == ActivateUpdate(t, "act_loaded", "Loaded", "act_activated")

activate_plugin_activated(t) == ActivateUpdate(t, "act_activated", "Activated", "act_path")

\* the metadata lookup before the hook, failing for a plugin that is there
mutant_activate_plugin_path(t) ==
    /\ pc[t] = "act_path"
    /\ AfterActivate(t, NotFound(op[t].p), local[t])
    /\ UNCHANGED <<regVars, resources, diskVars, permVars, guardVars,
                   auto_approve, op, trace>>

activate_plugin_path(t) ==
    /\ pc[t] = "act_path"
    /\ IF op[t].p \notin DOMAIN plugins
       THEN AfterActivate(t, NotFound(op[t].p), local[t])
       ELSE Goto(t, "act_hook", local[t])
    /\ UNCHANGED <<regVars, resources, diskVars, permVars, guardVars,
                   auto_approve, op, trace>>

execute_activate_hook(t) ==
    /\ pc[t] = "act_hook"
    /\ resources' = [resources EXCEPT ![op[t].p] = @ \cup Contributions(local[t].manifest)]
    /\ Goto(t, "act_running", [local[t] EXCEPT !.hook_state = StateOf(plugins, op[t].p)])
    /\ UNCHANGED <<regVars, diskVars, permVars, guardVars, auto_approve, op, trace>>

activate_plugin_running(t) ==
    /\ pc[t] = "act_running"
    /\ LET r == update_state(plugins, op[t].p, "Running")
       IN /\ plugins' = r.plugins
          /\ IF r.err # Ok
             THEN /\ UNCHANGED <<activation_order, trace>>
             ELSE /\ activation_order' = add_to_activation_order(activation_order, op[t].p)
                  /\ Write(t, op[t].p, plugins[op[t].p].state, "Running")
          /\ AfterActivate(t, r.err, local[t])
    /\ UNCHANGED <<manifests, resources, diskVars, permVars, guardVars,
                   auto_approve, op>>


(* deactivate_plugin *)

deactivate_plugin_call(t, p) == Call(t, "deactivate", p, NoZip, "deact_manifest")

deactivate_plugin_manifest(t) ==
    /\ pc[t] = "deact_manifest"
    /\ IF op[t].p \notin DOMAIN manifests
       THEN AfterDeactivate(t, NotFound(op[t].p), local[t])
       ELSE Goto(t, "deact_state", local[t])
    /\ UNCHANGED <<regVars, resources, diskVars, permVars, guardVars,
                   auto_approve, op, trace>>

deactivate_plugin_state(t) ==
    /\ pc[t] = "deact_state"
    /\ LET r == update_state(plugins, op[t].p, "Deactivated")
       IN /\ plugins' = r.plugins
          /\ IF r.err # Ok
             THEN /\ AfterDeactivate(t, r.err, local[t])
                  /\ UNCHANGED trace
             ELSE /\ Goto(t, "deact_path", local[t])
                  /\ Write(t, op[t].p, plugins[op[t].p].state, "Deactivated")
    /\ UNCHANGED <<manifests, activation_order, resources, diskVars, permVars,
                   guardVars, auto_approve, op>>

deactivate_plugin_path(t) ==
    /\ pc[t] = "deact_path"
    /\ IF op[t].p \notin DOMAIN plugins
       THEN AfterDeactivate(t, NotFound(op[t].p), local[t])
       ELSE Goto(t, "deact_hook", local[t])
    /\ UNCHANGED <<regVars, resources, diskVars, permVars, guardVars,
                   auto_approve, op, trace>>

mutant_execute_deactivate_hook(t) ==
    /\ pc[t] = "deact_hook"
    /\ resources' = [q \in DOMAIN resources |-> {}]
    /\ AfterDeactivate(t, Ok, local[t])
    /\ UNCHANGED <<regVars, diskVars, permVars, guardVars, auto_approve, op, trace>>

\* get_resources, the per-resource teardown (which only prints) and
\* clear_plugin_resources
execute_deactivate_hook(t) ==
    /\ pc[t] = "deact_hook"
    /\ resources' = [resources EXCEPT ![op[t].p] = {}]
    /\ AfterDeactivate(t, Ok, local[t])
    /\ UNCHANGED <<regVars, diskVars, permVars, guardVars, auto_approve, op, trace>>

(* uninstall_plugin *)

uninstall_plugin_call(t, p) == Call(t, "uninstall", p, NoZip, "uninst_check")

uninstall_plugin_check(t) ==
    /\ pc[t] = "uninst_check"
    /\ IF op[t].p \notin DOMAIN plugins
       THEN Return(t, NotFound(op[t].p), local[t])
       ELSE IF plugins[op[t].p].state = "Running"
       THEN Goto(t, "deact_manifest", local[t])
       ELSE Goto(t, "uninst_remove", local[t])
    /\ UNCHANGED <<regVars, resources, diskVars, permVars, guardVars,
                   auto_approve, op, trace>>

\* registry.remove(plugin_id)?
uninstall_plugin_remove(t) ==
    /\ pc[t] = "uninst_remove"
    /\ IF op[t].p \notin DOMAIN plugins
       THEN /\ Return(t, NotFound(op[t].p), local[t])
            /\ UNCHANGED <<regVars, trace>>
       ELSE /\ plugins' = remove_key(plugins, op[t].p)
            /\ manifests' = remove_key(manifests, op[t].p)
            /\ activation_order' = retain_other(activation_order, op[t].p)
            /\ Write(t, op[t].p, plugins[op[t].p].state, NoPlugin)
            /\ Goto(t, "uninst_files", local[t])
    /\ UNCHANGED <<resources, diskVars, permVars, guardVars, auto_approve, op>>

uninstall_plugin_files(t) ==
    /\ pc[t] = "uninst_files"
    /\ install_dirs' = remove_dir_all(install_dirs, op[t].p)
    /\ Goto(t, "uninst_perms", local[t])
    /\ UNCHANGED <<regVars, resources, permVars, guardVars, auditVars,
                   auto_approve, op, trace>>

uninstall_plugin_permissions(t) ==
    /\ pc[t] = "uninst_perms"
    /\ LET r == revoke_all_permissions(Store(permissions, perm_file, audit_log), op[t].p)
       IN /\ permissions' = r.permissions
          /\ perm_file' = r.file
          /\ audit_log' = r.log
          /\ Return(t, r.err, local[t])
    /\ UNCHANGED <<regVars, resources, diskVars, guardVars, auto_approve, op, trace>>

(* activate_plugin_with_rollback: activate_plugin, and on Err(e) the        *)
(* deactivate_plugin whose result is dropped, then the reset below          *)

activate_plugin_with_rollback_call(t, p) == Call(t, "rollback", p, NoZip, "act_manifest")

mutant_rollback_error(loc) == loc.sub

\* the error activate_plugin_with_rollback hands back: Err(e)
rollback_error(loc) == loc.e

\* metadata.state = PluginState::Installed
rollback_state(state) == "Installed"

activate_plugin_with_rollback_reset(t) ==
    /\ pc[t] = "rb_reset"
    /\ IF op[t].p \in DOMAIN plugins
       THEN /\ plugins' = [plugins EXCEPT ![op[t].p].state = rollback_state(@)]
            /\ Write(t, op[t].p, plugins[op[t].p].state, plugins'[op[t].p].state)
       ELSE UNCHANGED <<plugins, trace>>
    /\ Return(t, rollback_error(local[t]), local[t])
    /\ UNCHANGED <<manifests, activation_order, resources, diskVars, permVars,
                   guardVars, auto_approve, op>>

(* PluginManager::grant_permission: parse, then PermissionManager's grant  *)

manager_grant(st, p, permission) ==
    LET parts == split(permission, ":")
        permission_type == from_str(parts[1])
        resource_scope == IF Len(parts) > 1 THEN parts[2] ELSE Star
    IN IF permission_type = NoType
       THEN [st EXCEPT !.err = PermissionDenied("Unknown permission type")]
       ELSE grant_permission(st, p, permission_type, resource_scope)

manager_grant_permission(t, p, permission) ==
    /\ pc[t] = "idle"
    /\ Len(IF p \in DOMAIN permissions THEN permissions[p] ELSE <<>>) < MaxRecords
    /\ LET r == manager_grant(Store(permissions, perm_file, <<>>), p, permission)
       IN /\ permissions' = r.permissions
          /\ perm_file' = r.file
          /\ audit_log' = r.log
          /\ op' = [op EXCEPT ![t] = [name |-> "grant", p |-> p, zip |-> NoZip]]
          /\ ret' = [ret EXCEPT ![t] = [NoRet EXCEPT !.name = "grant", !.p = p,
                                                      !.err = r.err]]
    /\ local' = [local EXCEPT ![t] = InitLocal]
    /\ trace' = [trace EXCEPT ![t] = <<>>]
    /\ UNCHANGED <<regVars, resources, diskVars, guardVars, auto_approve, pc>>

(* The guards' PermissionManager: FileSystemAPI::new and NetworkProxy::new *)
(* take an Arc<Mutex<PermissionManager>>, an instance of its own, which    *)
(* reads plugin-permissions.json once, in its constructor.                 *)

with_auto_approve(file) == [constructed |-> TRUE, permissions |-> load(file)]

NotConstructed == [constructed |-> FALSE, permissions |-> EmptyMap]

guard_new ==
    /\ \A t \in DOMAIN pc : pc[t] = "idle"
    /\ ~guard_permissions.constructed
    /\ guard_permissions' = with_auto_approve(perm_file)
    /\ UNCHANGED <<regVars, resources, diskVars, permVars, auto_approve, pc, op, local,
                   trace, ret, fsVars, netVars, storageVars>>


-----------------------------------------------------------------------------
(* Paths and the file system.  A path is the sequence of its components,   *)
(* as std::path::Path sees it: RootDir first when it is absolute, then     *)
(* names and ParentDir.  Names are one character long, but for the name   *)
(* dx, and the text of a path is its components joined by '/'.  The file  *)
(* system holds the                                                        *)
(* directories and files by their real location and the symbolic links by *)
(* the place they sit at.                                                  *)

RootDir == "/"
ParentDir == ".."

is_absolute(path) == path # <<>> /\ path[1] = RootDir

join(base, path) == IF is_absolute(path) THEN path ELSE base \o path

parent(path) == SubSeq(path, 1, Len(path) - 1)

file_name(path) == path[Len(path)]

strip_prefix(path, base) == SubSeq(path, Len(base) + 1, Len(path))

\* Path::with_extension(".tmp"): the file name's stem, then "." and ".tmp"
with_extension(path) ==
    LET name == file_name(path)
    IN Append(parent(path),
              CASE name = "f" -> "f..tmp"
                [] name = "d" -> "d..tmp"
                [] name = "n" -> "n..tmp"
                [] name = "l" -> "l..tmp"
                [] name = "dx" -> "dx..tmp"
                [] name \in {"a.txt", "a.json"} -> "a..tmp"
                [] name = "b.txt" -> "b..tmp"
                [] OTHER -> "..tmp")

\* the characters of a name
chars(name) == IF name = "dx" THEN <<"d", "x">> ELSE <<name>>

\* to_string_lossy of a path
RECURSIVE to_string_lossy(_)
to_string_lossy(path) ==
    IF path = <<>> THEN <<>>
    ELSE IF path[1] = RootDir THEN <<"/">> \o to_string_lossy(Tail(path))
    ELSE LET text == IF path[1] = ParentDir THEN <<".", ".">> ELSE chars(path[1])
         IN IF Len(path) = 1 THEN text
            ELSE text \o <<"/">> \o to_string_lossy(Tail(path))

app_data_dir == <<RootDir, "A">>
Outside == <<RootDir, "O">>
NoLink == <<>>

\* AppData with a directory d holding a file, a directory and a file outside
\* AppData, and at AppData/l a symbolic link to target (none when NoLink)
FileSystem(target) ==
    [dirs |-> {<<RootDir>>, app_data_dir, Outside, app_data_dir \o <<"d">>},
     files |-> {app_data_dir \o <<"d", "f">>, Outside \o <<"f">>},
     links |-> IF target = NoLink THEN EmptyMap
               ELSE (app_data_dir \o <<"l">>) :> target]

\* where the operating system ends up when it walks the path: each symbolic
\* link on the way is replaced by its target
RECURSIVE resolve(_, _)
resolve(f, path) ==
    LET hits == {k \in 1..Len(path) : SubSeq(path, 1, k) \in DOMAIN f.links}
    IN IF hits = {} THEN path
       ELSE LET k == CHOOSE k \in hits : \A j \in hits : k <= j
            IN resolve(f, f.links[SubSeq(path, 1, k)] \o SubSeq(path, k + 1, Len(path)))

path_exists(f, path) == resolve(f, path) \in f.dirs \cup f.files

is_dir(f, path) == resolve(f, path) \in f.dirs

Prefixes(path) == {SubSeq(path, 1, k) : k \in 1..Len(path)}

create_dir_all(f, path) ==
    IF Prefixes(resolve(f, path)) \cap f.files # {}
    THEN [ok |-> FALSE, fs |-> f]
    ELSE [ok |-> TRUE, fs |-> [f EXCEPT !.dirs = @ \cup Prefixes(resolve(f, path))]]

\* std::fs::write of a file that does not exist yet
write(f, path) ==
    IF is_dir(f, path) \/ ~is_dir(f, parent(path))
    THEN [ok |-> FALSE, fs |-> f]
    ELSE [ok |-> TRUE, fs |-> [f EXCEPT !.files = @ \cup {resolve(f, path)}]]

remove_file(f, path) ==
    IF resolve(f, path) \notin f.files
    THEN [ok |-> FALSE, fs |-> f]
    ELSE [ok |-> TRUE, fs |-> [f EXCEPT !.files = @ \ {resolve(f, path)}]]

rename(f, from, to) ==
    IF resolve(f, from) \notin f.files \/ is_dir(f, to) \/ ~is_dir(f, parent(to))
    THEN [ok |-> FALSE, fs |-> f]
    ELSE [ok |-> TRUE,
          fs |-> [f EXCEPT !.files = (@ \ {resolve(f, from)}) \cup {resolve(f, to)}]]

read_dir(f, path) ==
    {file_name(q) : q \in {q \in f.dirs \cup f.files :
                              Len(q) > 1 /\ parent(q) = resolve(f, path)}}

-----------------------------------------------------------------------------
(* PermissionManager::validate_filesystem_permission and the filesystem    *)
(* guard (filesystem_api.rs)                                               *)

NoLog == [validation |-> <<>>, audit |-> <<>>]

FileSystemError(why) == [kind |-> "FileSystemError", detail |-> why]

\* the scope a record is matched by: "AppData/" is cut off the front
scope_to_match(scope) ==
    IF starts_with(scope, AppDataSlash)
    THEN SubSeq(scope, Len(AppDataSlash) + 1, Len(scope))
    ELSE scope

\* whether plugin p holds a granted record of the type whose scope admits
\* the AppData-relative path
filesystem_match(perms, p, permission_type, relative_path_str) ==
    /\ p \in DOMAIN perms
    /\ \E i \in 1..Len(perms[p]) :
         /\ perms[p][i].permission_type = permission_type
         /\ perms[p][i].granted
         /\ \/ perms[p][i].resource_scope = Star
            \/ matches_scope(relative_path_str, scope_to_match(perms[p][i].resource_scope))

\* the answer, and the error text log_validation records with it
validate_filesystem_permission(perms, f, p, path, is_write) ==
    LET permission_type == IF is_write THEN "filesystem.write" ELSE "filesystem.read"
        app_data_canonical == resolve(f, app_data_dir)
        found == path_exists(f, path)
        canonical == resolve(f, path)
        relative == IF found THEN strip_prefix(canonical, app_data_canonical)
                    ELSE strip_prefix(path, app_data_canonical)
    IN IF p \notin DOMAIN perms
       THEN [ok |-> FALSE, error |-> "No permissions found"]
       ELSE IF found /\ ~starts_with(canonical, app_data_canonical)
       THEN [ok |-> FALSE, error |-> "Path outside AppData"]
       ELSE IF ~found /\ ParentDir \in Range(path)
       THEN [ok |-> FALSE, error |-> "Path traversal attempt (..)"]
       ELSE IF ~found /\ ~starts_with(path, app_data_canonical)
       THEN [ok |-> FALSE, error |-> "Path outside AppData (non-canonical)"]
       ELSE IF filesystem_match(perms, p, permission_type, to_string_lossy(relative))
       THEN [ok |-> TRUE, error |-> NoError]
       ELSE [ok |-> FALSE, error |-> "No matching permission"]

\* FileSystemAPI::validate_path: the error, the validated path and the entry
\* the permission manager logged
validate_path(perms, f, p, path, is_write) ==
    LET full_path == join(app_data_dir, path)
        canonical_app_data == resolve(f, app_data_dir)
        canonical_path ==
            IF path_exists(f, full_path) THEN resolve(f, full_path)
            ELSE IF path_exists(f, parent(full_path))
            THEN Append(resolve(f, parent(full_path)), file_name(full_path))
            ELSE join(canonical_app_data, path)
        v == validate_filesystem_permission(perms, f, p, canonical_path, is_write)
        entry == AuditLogEntry(p, IF is_write THEN "filesystem.write" ELSE "filesystem.read",
                               to_string_lossy(canonical_path), "validate", v.ok, v.error)
    IN IF ParentDir \in Range(path)
       THEN [err |-> PermissionDenied("Path traversal attempt (..) detected"),
             path |-> <<>>, log |-> <<>>]
       ELSE IF is_absolute(path)
       THEN [err |-> PermissionDenied("Absolute paths not allowed"),
             path |-> <<>>, log |-> <<>>]
       ELSE IF ~starts_with(canonical_path, canonical_app_data)
       THEN [err |-> PermissionDenied("Path escapes AppData directory"),
             path |-> <<>>, log |-> <<>>]
       ELSE IF ~v.ok
       THEN [err |-> PermissionDenied("No permission for path"),
             path |-> <<>>, log |-> <<entry>>]
       ELSE [err |-> Ok, path |-> canonical_path, log |-> <<entry>>]

log_operation(p, operation, path, result, error) ==
    AuditLogEntry(p,
                  IF operation \in {"write", "delete"} THEN "filesystem.write"
                  ELSE "filesystem.read",
                  to_string_lossy(path), operation, result, error)

\* the paths the guard is called with
Paths ==
    { <<"d">>, <<"d", "f">>, <<"l", "f">>, <<"l", "n", "f">>,
      <<ParentDir, "O", "f">>, <<RootDir, "O", "f">> }

\* the plugin whose guard calls are followed; the other one only holds grants
Callers == {"p1"}

\* the grants made through the guard's own permission manager
FsGrants ==
    { <<"filesystem.write", Star>>,
      <<"filesystem.read", AppDataSlash \o <<"d", "/", "*">> >> }

\* what a guard call leaves behind: the guard's log and the call's outcome
FsReturn(t, name, p, path, v, err, operations, value) ==
    /\ pc[t] = "idle"
    /\ guard_permissions.constructed
    /\ guard_log' = [validation |-> v.log, audit |-> operations]
    /\ ret' = [ret EXCEPT ![t] =
                 [name |-> name, p |-> p, path |-> path, err |-> err,
                  accepted |-> v.err = Ok, validated |-> v.path,
                  touched |-> resolve(fs, v.path), value |-> value]]
    /\ UNCHANGED <<regVars, resources, diskVars, permVars, guard_permissions,
                   auto_approve, pc, op, local, trace, netVars, storageVars>>

read_file(t, p, path) ==
    \E v \in {validate_path(guard_permissions.permissions, fs, p, path, FALSE)} :
       /\ UNCHANGED <<fs, watchers>>
       /\ IF v.err # Ok THEN FsReturn(t, "read_file", p, path, v, v.err, <<>>, FALSE)
          ELSE IF resolve(fs, v.path) \notin fs.files
          THEN FsReturn(t, "read_file", p, path, v, FileSystemError("Failed to read file"),
                        <<log_operation(p, "read", v.path, FALSE, "io")>>, FALSE)
          ELSE FsReturn(t, "read_file", p, path, v, Ok,
                        <<log_operation(p, "read", v.path, TRUE, NoError)>>, TRUE)

write_file(t, p, path) ==
    \E v \in {validate_path(guard_permissions.permissions, fs, p, path, TRUE)} :
    LET made == create_dir_all(fs, parent(v.path))
        temp_path == with_extension(v.path)
        written == write(made.fs, temp_path)
        renamed == rename(written.fs, temp_path, v.path)
        failed(f, why) ==
            /\ fs' = f
            /\ FsReturn(t, "write_file", p, path, v, FileSystemError(why),
                        <<log_operation(p, "write", v.path, FALSE, "io")>>, FALSE)
    IN /\ UNCHANGED watchers
       /\ IF v.err # Ok
          THEN /\ UNCHANGED fs
               /\ FsReturn(t, "write_file", p, path, v, v.err, <<>>, FALSE)
          ELSE IF ~made.ok THEN failed(made.fs, "Failed to create parent directory")
          ELSE IF ~written.ok THEN failed(written.fs, "Failed to write temp file")
          ELSE IF ~renamed.ok
          THEN failed(remove_file(written.fs, temp_path).fs, "Failed to rename temp file")
          ELSE /\ fs' = renamed.fs
               /\ FsReturn(t, "write_file", p, path, v, Ok,
                           <<log_operation(p, "write", v.path, TRUE, NoError)>>, TRUE)

list_files(t, p, path) ==
    \E v \in {validate_path(guard_permissions.permissions, fs, p, path, FALSE)} :
       /\ UNCHANGED <<fs, watchers>>
       /\ IF v.err # Ok THEN FsReturn(t, "list_files", p, path, v, v.err, <<>>, {})
          ELSE IF ~is_dir(fs, v.path)
          THEN FsReturn(t, "list_files", p, path, v,
                        FileSystemError("Path is not a directory"),
                        <<log_operation(p, "list", v.path, FALSE, "Not a directory")>>, {})
          ELSE FsReturn(t, "list_files", p, path, v, Ok,
                        <<log_operation(p, "list", v.path, TRUE, NoError)>>,
                        read_dir(fs, v.path))

watch_directory(t, p, path) ==
    \E v \in {validate_path(guard_permissions.permissions, fs, p, path, FALSE)} :
       /\ UNCHANGED fs
       /\ IF v.err # Ok
          THEN /\ UNCHANGED watchers
               /\ FsReturn(t, "watch_directory", p, path, v, v.err, <<>>, FALSE)
          ELSE IF ~is_dir(fs, v.path)
          THEN /\ UNCHANGED watchers
               /\ FsReturn(t, "watch_directory", p, path, v,
                           FileSystemError("Path is not a directory"),
                           <<log_operation(p, "watch", v.path, FALSE, "Not a directory")>>,
                           FALSE)
          ELSE /\ watchers' = register(watchers, p, v.path)
               /\ FsReturn(t, "watch_directory", p, path, v, Ok,
                           <<log_operation(p, "watch", v.path, TRUE, NoError)>>, TRUE)

unwatch_directory(t, p) ==
    /\ pc[t] = "idle"
    /\ guard_permissions.constructed
    /\ watchers' = remove_key(watchers, p)
    /\ guard_log' = NoLog
    /\ ret' = [ret EXCEPT ![t] = [NoRet EXCEPT !.name = "unwatch_directory", !.p = p]]
    /\ UNCHANGED <<regVars, resources, diskVars, permVars, guard_permissions,
                   auto_approve, pc, op, local, trace, fs, netVars, storageVars>>

delete_file(t, p, path) ==
    \E v \in {validate_path(guard_permissions.permissions, fs, p, path, TRUE)} :
    LET removed == remove_file(fs, v.path)
    IN /\ UNCHANGED watchers
       /\ IF v.err # Ok
          THEN /\ UNCHANGED fs
               /\ FsReturn(t, "delete_file", p, path, v, v.err, <<>>, FALSE)
          ELSE /\ fs' = removed.fs
               /\ IF ~removed.ok
                  THEN FsReturn(t, "delete_file", p, path, v,
                                FileSystemError("Failed to delete file"),
                                <<log_operation(p, "delete", v.path, FALSE, "io")>>, FALSE)
                  ELSE FsReturn(t, "delete_file", p, path, v, Ok,
                                <<log_operation(p, "delete", v.path, TRUE, NoError)>>, TRUE)

create_directory(t, p, path) ==
    \E v \in {validate_path(guard_permissions.permissions, fs, p, path, TRUE)} :
    LET made == create_dir_all(fs, v.path)
    IN /\ UNCHANGED watchers
       /\ IF v.err # Ok
          THEN /\ UNCHANGED fs
               /\ FsReturn(t, "create_directory", p, path, v, v.err, <<>>, FALSE)
          ELSE /\ fs' = made.fs
               /\ IF ~made.ok
                  THEN FsReturn(t, "create_directory", p, path, v,
                                FileSystemError("Failed to create directory"),
                                <<log_operation(p, "mkdir", v.path, FALSE, "io")>>, FALSE)
                  ELSE FsReturn(t, "create_directory", p, path, v, Ok,
                                <<log_operation(p, "mkdir", v.path, TRUE, NoError)>>, TRUE)

exists(t, p, path) ==
    \E v \in {validate_path(guard_permissions.permissions, fs, p, path, FALSE)} :
       /\ UNCHANGED <<fs, watchers>>
       /\ IF v.err # Ok THEN FsReturn(t, "exists", p, path, v, v.err, <<>>, FALSE)
          ELSE FsReturn(t, "exists", p, path, v, Ok,
                        <<log_operation(p, "exists", v.path, TRUE, NoError)>>,
                        path_exists(fs, v.path))

\* PermissionManager::grant_permission on the guard's own instance, as
\* fs.permission_manager().lock().unwrap().grant_permission(..) does
guard_grant_permission(t, p, permission_type, resource_scope) ==
    /\ pc[t] = "idle"
    /\ guard_permissions.constructed
    /\ Len(IF p \in DOMAIN guard_permissions.permissions
           THEN guard_permissions.permissions[p] ELSE <<>>) < MaxRecords
    /\ LET r == grant_permission(Store(guard_permissions.permissions, perm_file, <<>>),
                                 p, permission_type, resource_scope)
       IN /\ guard_permissions' = [guard_permissions EXCEPT !.permissions = r.permissions]
          /\ perm_file' = r.file
          /\ guard_log' = [validation |-> r.log, audit |-> <<>>]
          /\ ret' = [ret EXCEPT ![t] = [NoRet EXCEPT !.name = "guard_grant", !.p = p,
                                                      !.err = r.err]]
    /\ UNCHANGED <<regVars, resources, diskVars, permissions, audit_log, auto_approve,
                   pc, op, local, trace, fs, watchers, netVars, storageVars>>

-----------------------------------------------------------------------------
(* NetworkProxy (network_proxy.rs).  Time passes in ticks of 0.6 s, the    *)
(* time the refill rate of 100 tokens a minute takes to add one token, so  *)
(* that a bucket holds whole tokens; a bucket keeps the ticks since its    *)
(* last refill instead of the instant, and stops counting once they fill   *)
(* it whatever it held.  A cache entry keeps the ticks since it was put in  *)
(* the cache instead of expires_at, counted up to its TTL.                 *)

capacity == 100
refill_rate == 1

Min(a, b) == IF a <= b THEN a ELSE b

TokenBucket == [tokens |-> capacity, since |-> 0]

refill(bucket) ==
    [tokens |-> Min(bucket.tokens + bucket.since * refill_rate, capacity), since |-> 0]

mutant_try_consume(bucket, tokens) == [ok |-> TRUE, bucket |-> refill(bucket)]

try_consume(bucket, tokens) ==
    IF refill(bucket).tokens >= tokens
    THEN [ok |-> TRUE, bucket |-> [refill(bucket) EXCEPT !.tokens = @ - tokens]]
    ELSE [ok |-> FALSE, bucket |-> refill(bucket)]

mutant_check_rate_limit(limiters, p) ==
    [ok |-> try_consume(TokenBucket, 1).ok,
     limiters |-> register(limiters, p, try_consume(TokenBucket, 1).bucket)]

\* NetworkProxy::check_rate_limit: the answer and the map with the bucket in it
check_rate_limit(limiters, p) ==
    LET limiter == IF p \in DOMAIN limiters THEN limiters[p] ELSE TokenBucket
    IN [ok |-> try_consume(limiter, 1).ok,
        limiters |-> register(limiters, p, try_consume(limiter, 1).bucket)]

\* a URL as url::Url::parse sees it: whether it parses, and its host_str()
Url(text, parses, host) == [text |-> text, parses |-> parses, host |-> host]
NoHost == <<>>

HttpRequest(url, method, headers) == [url |-> url, method |-> method, headers |-> headers]
HttpResponse(status, body) == [status |-> status, body |-> body]
NoResponse == HttpResponse(0, "")

validate_domain(perms, p, url) ==
    IF ~url.parses
    THEN [err |-> PermissionDenied("Invalid URL"), log |-> <<>>]
    ELSE IF url.host = NoHost
    THEN [err |-> PermissionDenied("URL has no host"), log |-> <<>>]
    ELSE IF ~validate_network_permission(perms, p, url.host)
    THEN [err |-> PermissionDenied("No network permission for domain"),
          log |-> <<validate_network_log(perms, p, url.host)>>]
    ELSE [err |-> Ok, log |-> <<validate_network_log(perms, p, url.host)>>]

cache_key(req) ==
    <<req.method, req.url.text,
      IF "Authorization" \in DOMAIN req.headers
      THEN <<"auth", req.headers["Authorization"]>> ELSE <<>> >>

default_cache_ttl == 300

\* a number of seconds in ticks: 100 tokens a minute are one token a tick
ticks(secs) == (secs * capacity) \div 60

\* Instant::now() < entry.expires_at
unexpired(entry) == entry.age < ticks(default_cache_ttl)

aged(entry, n) == [entry EXCEPT !.age = Min(@ + n, ticks(default_cache_ttl))]

\* get_cached that returns whatever entry the key has
mutant_get_cached(entries, req) ==
    IF cache_key(req) \notin DOMAIN entries
    THEN [hit |-> FALSE, response |-> NoResponse, cache |-> entries]
    ELSE [hit |-> TRUE, response |-> entries[cache_key(req)].response, cache |-> entries]

\* the cached response when there is one unexpired; an expired entry is popped
get_cached(entries, req) ==
    IF cache_key(req) \notin DOMAIN entries
    THEN [hit |-> FALSE, response |-> NoResponse, cache |-> entries]
    ELSE IF unexpired(entries[cache_key(req)])
    THEN [hit |-> TRUE, response |-> entries[cache_key(req)].response, cache |-> entries]
    ELSE [hit |-> FALSE, response |-> NoResponse,
          cache |-> remove_key(entries, cache_key(req))]

cache_response(entries, req, response) ==
    register(entries, cache_key(req), [response |-> response, age |-> 0])

log_request(p, req, success, error) ==
    AuditLogEntry(p, "network.request", req.url.text, req.method, success, error)

Urls ==
    { Url("https://a.e.c/x", TRUE, <<"a", ".", "e", ".", "c">>),
      Url("https://x.y/", TRUE, <<"x", ".", "y">>),
      Url("mailto:x", TRUE, NoHost) }

Requests == { HttpRequest(url, method, EmptyMap) :
                url \in Urls, method \in {"GET", "POST", "OPTIONS"} }

\* HTTP header names are case-insensitive: the name as the server reads it
to_lowercase(name) == IF name = "Authorization" THEN "authorization" ELSE name

NoCredential == "none"

\* the credential the server sees in a request that is sent
authorization(headers) ==
    IF \E n \in DOMAIN headers : to_lowercase(n) = "authorization"
    THEN headers[CHOOSE n \in DOMAIN headers : to_lowercase(n) = "authorization"]
    ELSE NoCredential

\* the response the server gives to a request: the body it has for the
\* credential the request carries
answer(req, response) ==
    IF authorization(req.headers) = NoCredential \/ response.status # 200 THEN response
    ELSE [response EXCEPT !.body = authorization(req.headers)]

\* what the network does with a request that is sent
Outcomes ==
    { [kind |-> "response", response |-> HttpResponse(200, "b")],
      [kind |-> "response", response |-> HttpResponse(500, "b")],
      [kind |-> "send_error", response |-> NoResponse],
      [kind |-> "body_error", response |-> NoResponse] }

\* the grants made through the guard's own permission manager
NetGrant == <<"network.request", <<"*", ".", "e", ".", "c">> >>
NetGrants == {NetGrant}

StoredBucket(limiters, p) ==
    IF p \in DOMAIN limiters
    THEN [present |-> TRUE, tokens |-> limiters[p].tokens, since |-> limiters[p].since]
    ELSE [present |-> FALSE, tokens |-> 0, since |-> 0]

\* A window of time in which the rate-limit checks of a plugin are counted:
\* the ticks gone by since it began, the checks admitted in it and whether
\* one was refused.  It is followed for MaxTicks ticks and ends, at the
\* latest, with its 60 seconds.
NoWindow == [open |-> FALSE, first |-> FALSE, elapsed |-> 0, admitted |-> 0,
             refused |-> FALSE]

counted(w, p, ok) ==
    IF ~w[p].open THEN w
    ELSE IF ok THEN [w EXCEPT ![p].admitted = @ + 1]
    ELSE [w EXCEPT ![p].refused = TRUE]

elapsed(w) ==
    IF ~w.open THEN w
    ELSE IF w.elapsed + 1 >= Min(MaxTicks + 1, capacity \div refill_rate) THEN NoWindow
    ELSE [w EXCEPT !.elapsed = @ + 1]

\* a window begins for p: at p's first check, or when p's bucket is empty
window_begins(p) ==
    /\ ~window[p].open
    /\ p \in DOMAIN rate_limiters => rate_limiters[p].tokens = 0
    /\ window' = [window EXCEPT ![p] = [NoWindow EXCEPT !.open = TRUE,
                                          !.first = p \notin DOMAIN rate_limiters]]
    /\ UNCHANGED <<regVars, resources, diskVars, permVars, guard_permissions,
                   auto_approve, pc, op, local, trace, ret, fsVars, rate_limiters, cache,
                   storageVars>>

NetReturn(t, p, req, err, response, source, validation, audit) ==
    /\ guard_log' = [validation |-> validation, audit |-> audit]
    /\ ret' = [ret EXCEPT ![t] =
                 [name |-> "request", p |-> p, req |-> req, err |-> err,
                  response |-> response, source |-> source,
                  before |-> StoredBucket(rate_limiters, p)]]

\* request with the token taken before the whitelist is asked
mutant_request(t, p, req) ==
    /\ pc[t] = "idle"
    /\ guard_permissions.constructed
    /\ \E d \in {validate_domain(guard_permissions.permissions, p, req.url)} :
       \E l \in {check_rate_limit(rate_limiters, p)} :
       \E c \in {IF req.method = "GET" THEN get_cached(cache, req)
                 ELSE [hit |-> FALSE, response |-> NoResponse, cache |-> cache]} :
          /\ window' = IF d.err = Ok THEN counted(window, p, l.ok) ELSE window
          /\ IF d.err # Ok
             THEN /\ rate_limiters' = l.limiters
                  /\ UNCHANGED cache
                  /\ NetReturn(t, p, req, d.err, NoResponse, "none", d.log, <<>>)
             ELSE IF ~l.ok
             THEN /\ rate_limiters' = l.limiters
                  /\ UNCHANGED cache
                  /\ NetReturn(t, p, req, PermissionDenied("Rate limit exceeded (100 req/min)"),
                               NoResponse, "none", d.log,
                               <<log_request(p, req, FALSE, "Rate limit exceeded")>>)
             ELSE IF c.hit
             THEN /\ rate_limiters' = l.limiters
                  /\ cache' = c.cache
                  /\ NetReturn(t, p, req, Ok, c.response, "cache", d.log,
                               <<log_request(p, req, TRUE, NoError)>>)
             ELSE IF req.method = "OPTIONS"
             THEN /\ rate_limiters' = l.limiters
                  /\ cache' = c.cache
                  /\ NetReturn(t, p, req, PermissionDenied("OPTIONS method not supported"),
                               NoResponse, "none", d.log, <<>>)
             ELSE \E outcome \in Outcomes :
                  /\ rate_limiters' = l.limiters
                  /\ IF outcome.kind = "send_error"
                     THEN /\ cache' = c.cache
                          /\ NetReturn(t, p, req, PermissionDenied("HTTP request failed"),
                                       NoResponse, "none", d.log,
                                       <<log_request(p, req, FALSE, "send")>>)
                     ELSE IF outcome.kind = "body_error"
                     THEN /\ cache' = c.cache
                          /\ NetReturn(t, p, req,
                                       PermissionDenied("Failed to read response body"),
                                       NoResponse, "none", d.log, <<>>)
                     ELSE /\ cache' = IF req.method = "GET" /\ outcome.response.status = 200
                                      THEN cache_response(c.cache, req, answer(req, outcome.response))
                                      ELSE c.cache
                          /\ NetReturn(t, p, req, Ok, answer(req, outcome.response), "network",
                                       d.log,
                                       <<log_request(p, req, TRUE, NoError)>>)
    /\ UNCHANGED <<regVars, resources, diskVars, permVars, guard_permissions,
                   auto_approve, pc, op, local, trace, fs, watchers, storageVars>>

request(t, p, req) ==
    /\ pc[t] = "idle"
    /\ guard_permissions.constructed
    /\ \E d \in {validate_domain(guard_permissions.permissions, p, req.url)} :
       \E l \in {check_rate_limit(rate_limiters, p)} :
       \E c \in {IF req.method = "GET" THEN get_cached(cache, req)
                 ELSE [hit |-> FALSE, response |-> NoResponse, cache |-> cache]} :
          /\ window' = IF d.err = Ok THEN counted(window, p, l.ok) ELSE window
          /\ IF d.err # Ok
             THEN /\ UNCHANGED <<rate_limiters, cache>>
                  /\ NetReturn(t, p, req, d.err, NoResponse, "none", d.log, <<>>)
             ELSE IF ~l.ok
             THEN /\ rate_limiters' = l.limiters
                  /\ UNCHANGED cache
                  /\ NetReturn(t, p, req, PermissionDenied("Rate limit exceeded (100 req/min)"),
                               NoResponse, "none", d.log,
                               <<log_request(p, req, FALSE, "Rate limit exceeded")>>)
             ELSE IF c.hit
             THEN /\ rate_limiters' = l.limiters
                  /\ cache' = c.cache
                  /\ NetReturn(t, p, req, Ok, c.response, "cache", d.log,
                               <<log_request(p, req, TRUE, NoError)>>)
             ELSE IF req.method = "OPTIONS"
             THEN /\ rate_limiters' = l.limiters
                  /\ cache' = c.cache
                  /\ NetReturn(t, p, req, PermissionDenied("OPTIONS method not supported"),
                               NoResponse, "none", d.log, <<>>)
             ELSE \E outcome \in Outcomes :
                  /\ rate_limiters' = l.limiters
                  /\ IF outcome.kind = "send_error"
                     THEN /\ cache' = c.cache
                          /\ NetReturn(t, p, req, PermissionDenied("HTTP request failed"),
                                       NoResponse, "none", d.log,
                                       <<log_request(p, req, FALSE, "send")>>)
                     ELSE IF outcome.kind = "body_error"
                     THEN /\ cache' = c.cache
                          /\ NetReturn(t, p, req,
                                       PermissionDenied("Failed to read response body"),
                                       NoResponse, "none", d.log, <<>>)
                     ELSE /\ cache' = IF req.method = "GET" /\ outcome.response.status = 200
                                      THEN cache_response(c.cache, req, answer(req, outcome.response))
                                      ELSE c.cache
                          /\ NetReturn(t, p, req, Ok, answer(req, outcome.response), "network",
                                       d.log,
                                       <<log_request(p, req, TRUE, NoError)>>)
    /\ UNCHANGED <<regVars, resources, diskVars, permVars, guard_permissions,
                   auto_approve, pc, op, local, trace, fs, watchers, storageVars>>

\* a tick goes by: every bucket has waited one tick longer and every cache
\* entry is one tick older; ticks are followed for MaxElapsed ticks after a
\* refill and after an insertion, and again for the last tick of an entry
tick ==
    /\ \A p \in DOMAIN rate_limiters : rate_limiters[p].since < MaxElapsed
    /\ \A k \in DOMAIN cache : \/ cache[k].age < MaxElapsed
                               \/ cache[k].age >= ticks(default_cache_ttl) - 1
    /\ rate_limiters' = [p \in DOMAIN rate_limiters |->
                            [rate_limiters[p] EXCEPT !.since = @ + 1]]
    /\ cache' = [k \in DOMAIN cache |-> aged(cache[k], 1)]
    /\ window' = [p \in DOMAIN window |-> elapsed(window[p])]
    /\ UNCHANGED <<regVars, resources, diskVars, permVars, guard_permissions,
                   auto_approve, pc, op, local, trace, ret, fsVars, storageVars>>

\* default_cache_ttl goes by: every bucket has had the time to fill and
\* every cache entry has expired
ttl_elapses ==
    /\ rate_limiters' = [p \in DOMAIN rate_limiters |->
                            [rate_limiters[p] EXCEPT !.since = capacity \div refill_rate]]
    /\ cache' = [k \in DOMAIN cache |-> aged(cache[k], ticks(default_cache_ttl))]
    /\ window' = [p \in DOMAIN window |-> NoWindow]
    /\ UNCHANGED <<regVars, resources, diskVars, permVars, guard_permissions,
                   auto_approve, pc, op, local, trace, ret, fsVars, storageVars>>

\* one tick less than default_cache_ttl goes by
ttl_nearly_elapses ==
    /\ rate_limiters' = [p \in DOMAIN rate_limiters |->
                            [rate_limiters[p] EXCEPT !.since = capacity \div refill_rate]]
    /\ cache' = [k \in DOMAIN cache |-> aged(cache[k], ticks(default_cache_ttl) - 1)]
    /\ window' = [p \in DOMAIN window |-> NoWindow]
    /\ UNCHANGED <<regVars, resources, diskVars, permVars, guard_permissions,
                   auto_approve, pc, op, local, trace, ret, fsVars, storageVars>>

-----------------------------------------------------------------------------
(* StorageAPI (storage_api.rs).  Plugin ids are manifest names: letters,   *)
(* digits, '-' and '_', one path component each.  A value handed to set is *)
(* a text; the texts tried are listed in RawValues, and serde_json is      *)
(* modelled on them: what from_str makes of a text and what to_string      *)
(* writes for a stored value.                                              *)

RawValues == {"v1", "\"v1\"", "42", "[1]"}

\* serde_json::from_str::<serde_json::Value>
json_from_str(text) ==
    CASE text = "\"v1\"" -> [ok |-> TRUE, kind |-> "String", v |-> "v1"]
      [] text = "42" -> [ok |-> TRUE, kind |-> "Number", v |-> "42"]
      [] text = "42.0" -> [ok |-> TRUE, kind |-> "Number", v |-> "42.0"]
      [] text = "[1]" -> [ok |-> TRUE, kind |-> "Array", v |-> "[1]"]
      [] OTHER -> [ok |-> FALSE, kind |-> "None", v |-> ""]

\* Number::as_f64: 42 and 42.0 are the same f64
as_f64(v) == IF v \in {"42", "42.0"} THEN 42 ELSE 0

StorageValue(tag, v) == [tag |-> tag, v |-> v]

\* the StorageValue set stores for a text
parse_value(value) ==
    LET json == json_from_str(value)
    IN IF ~json.ok THEN StorageValue("String", value)
       ELSE IF json.kind = "String" THEN StorageValue("String", json.v)
       ELSE IF json.kind = "Number" THEN StorageValue("Number", as_f64(json.v))
       ELSE StorageValue("Object", json.v)

\* serde_json::to_string of a StorageValue (untagged): a string is quoted, an
\* f64 is written with its fraction, any other JSON value as it is
to_string(value) ==
    IF value.tag = "String"
    THEN (CASE value.v = "v1" -> "\"v1\"" [] OTHER -> "\"\"")
    ELSE IF value.tag = "Number"
    THEN (CASE value.v = 42 -> "42.0" [] OTHER -> "0.0")
    ELSE value.v

\* serde's untagged deserialization of a StorageValue: String, Number,
\* Boolean, Object are tried in that order
deserialize(text) ==
    LET json == json_from_str(text)
    IN IF json.kind = "String" THEN StorageValue("String", json.v)
       ELSE IF json.kind = "Number" THEN StorageValue("Number", as_f64(json.v))
       ELSE StorageValue("Object", json.v)

mutant_get_storage_path(p) == <<"plugin-data", "storage.json">>

get_storage_path(p) == <<"plugin-data", p, "storage.json">>

load_storage(files, p) ==
    IF get_storage_path(p) \in DOMAIN files
    THEN [k \in DOMAIN files[get_storage_path(p)] |->
            deserialize(files[get_storage_path(p)][k])]
    ELSE EmptyMap

mutant_save_storage(files, p, data) == files

\* the file is rewritten with every value serialized
save_storage(files, p, data) ==
    register(files, get_storage_path(p), [k \in DOMAIN data |-> to_string(data[k])])

ensure_loaded(mem, files, p) ==
    IF p \in DOMAIN mem THEN mem ELSE register(mem, p, load_storage(files, p))

mutant_insert(data, key, value) ==
    IF key \in DOMAIN data THEN data ELSE register(data, key, value)

\* HashMap::insert
insert(data, key, value) == register(data, key, value)

None == [some |-> FALSE, v |-> ""]
Some(v) == [some |-> TRUE, v |-> v]

StorageReturn(t, name, p, key, value, err, out) ==
    /\ pc[t] = "idle"
    /\ ret' = [ret EXCEPT ![t] =
                 [name |-> name, p |-> p, key |-> key, value |-> value, err |-> err,
                  out |-> out,
                  stood |-> p \in DOMAIN latest /\ key \in DOMAIN latest[p]]]
    /\ UNCHANGED <<regVars, resources, diskVars, permVars, guard_permissions,
                   auto_approve, pc, op, local, trace, fsVars, netVars>>

set(t, p, key, value) ==
    /\ latest' = [latest EXCEPT ![p] = register(@, key, value)]
    /\ IF key = ""
       THEN /\ UNCHANGED <<storage, storage_files>>
            /\ StorageReturn(t, "set", p, key, value,
                             PermissionDenied("Storage key cannot be empty"), FALSE)
       ELSE \E mem \in {ensure_loaded(storage, storage_files, p)} :
            \E data \in {insert(mem[p], key, parse_value(value))} :
               /\ storage' = [mem EXCEPT ![p] = data]
               /\ storage_files' = save_storage(storage_files, p, data)
               /\ StorageReturn(t, "set", p, key, value, Ok, TRUE)

get(t, p, key) ==
    \E mem \in {ensure_loaded(storage, storage_files, p)} :
       /\ storage' = mem
       /\ UNCHANGED <<storage_files, latest>>
       /\ StorageReturn(t, "get", p, key, "", Ok,
                        IF key \in DOMAIN mem[p] THEN Some(to_string(mem[p][key]))
                        ELSE None)

delete(t, p, key) ==
    \E mem \in {ensure_loaded(storage, storage_files, p)} :
    \E data \in {remove_key(mem[p], key)} :
       /\ storage' = [mem EXCEPT ![p] = data]
       /\ storage_files' = save_storage(storage_files, p, data)
       /\ latest' = [latest EXCEPT ![p] = remove_key(@, key)]
       /\ StorageReturn(t, "delete", p, key, "", Ok, key \in DOMAIN mem[p])

clear(t, p) ==
    \E mem \in {ensure_loaded(storage, storage_files, p)} :
       /\ storage' = [mem EXCEPT ![p] = EmptyMap]
       /\ storage_files' = save_storage(storage_files, p, EmptyMap)
       /\ latest' = [latest EXCEPT ![p] = EmptyMap]
       /\ StorageReturn(t, "clear", p, "", "", Ok, TRUE)

keys(t, p) ==
    \E mem \in {ensure_loaded(storage, storage_files, p)} :
       /\ storage' = mem
       /\ UNCHANGED <<storage_files, latest>>
       /\ StorageReturn(t, "keys", p, "", "", Ok, DOMAIN mem[p])

has(t, p, key) ==
    \E mem \in {ensure_loaded(storage, storage_files, p)} :
       /\ storage' = mem
       /\ UNCHANGED <<storage_files, latest>>
       /\ StorageReturn(t, "has", p, key, "", Ok, key \in DOMAIN mem[p])

size(t, p) ==
    \E mem \in {ensure_loaded(storage, storage_files, p)} :
       /\ storage' = mem
       /\ UNCHANGED <<storage_files, latest>>
       /\ StorageReturn(t, "size", p, "", "", Ok, Cardinality(DOMAIN mem[p]))

\* StorageAPI::new over the same directory after a restart of the process
storage_new(t) ==
    /\ storage' = EmptyMap
    /\ UNCHANGED <<storage_files, latest>>
    /\ StorageReturn(t, "new", NoPlugin, "", "", Ok, TRUE)

\* the calls tried: every text under key k, one text under key j and under
\* the empty key
Keys == {"", "k", "j"}
Sets == ({"k"} \X RawValues) \cup {<<"j", "v1">>, <<"", "v1">>}

-----------------------------------------------------------------------------
(* The plugin manager driven by one host thread *)

Threads == {1}

ThreadInit(threads) ==
    /\ pc = [t \in threads |-> "idle"]
    /\ op = [t \in threads |-> [name |-> "none", p |-> NoPlugin, zip |-> NoZip]]
    /\ local = [t \in threads |-> InitLocal]
    /\ trace = [t \in threads |-> <<>>]
    /\ ret = [t \in threads |-> NoRet]

\* PluginManager::with_auto_approve over an empty AppData directory
RegistryInit ==
    /\ plugins = EmptyMap
    /\ manifests = EmptyMap

ManagerInit ==
    /\ activation_order = <<>>
    /\ resources = [p \in PluginIds |-> {}]
    /\ install_dirs = {}
    /\ permissions = EmptyMap
    /\ perm_file = [exists |-> FALSE, permissions |-> EmptyMap]
    /\ auto_approve \in BOOLEAN
    /\ audit_log = <<>>

\* no guard constructed yet
GuardInit == guard_permissions = NotConstructed

FsInit(targets) ==
    /\ \E target \in targets : fs = FileSystem(target)
    /\ watchers = EmptyMap
    /\ guard_log = NoLog

NetInit ==
    /\ rate_limiters = EmptyMap
    /\ cache = EmptyMap
    /\ window = [p \in PluginIds |-> NoWindow]

\* AuditLogger::new, a month after the first day of the calendar
AuditInit ==
    /\ today = retention + 1
    /\ log_files = {}
    /\ logged_days = {}

StorageInit ==
    /\ storage = EmptyMap
    /\ storage_files = EmptyMap
    /\ latest = [p \in PluginIds |-> EmptyMap]

Init ==
    /\ RegistryInit /\ ManagerInit /\ ThreadInit(Threads)
    /\ GuardInit /\ FsInit({NoLink}) /\ NetInit /\ StorageInit /\ AuditInit

Next ==
    \/ \E t \in Threads, zip \in Archives : load_plugin_from_zip_call(t, zip)
    \/ \E t \in Threads : load_plugin_from_zip_extract(t)
    \/ \E t \in Threads : load_plugin_from_zip_register(t)
    \/ \E t \in Threads, p \in PluginIds : activate_plugin_call(t, p)
    \/ \E t \in Threads : activate_plugin_manifest(t)
    \/ \E t \in Threads : activate_plugin_permissions(t)
    \/ \E t \in Threads : activate_plugin_state(t)
    \/ \E t \in Threads : activate_plugin_loaded(t)
    \/ \E t \in Threads : activate_plugin_activated(t)
    \/ \E t \in Threads : activate_plugin_path(t)
    \/ \E t \in Threads : execute_activate_hook(t)
    \/ \E t \in Threads : activate_plugin_running(t)
    \/ \E t \in Threads, p \in PluginIds : deactivate_plugin_call(t, p)
    \/ \E t \in Threads : deactivate_plugin_manifest(t)
    \/ \E t \in Threads : deactivate_plugin_state(t)
    \/ \E t \in Threads : deactivate_plugin_path(t)
    \/ \E t \in Threads : execute_deactivate_hook(t)
    \/ \E t \in Threads, p \in PluginIds : uninstall_plugin_call(t, p)
    \/ \E t \in Threads : uninstall_plugin_check(t)
    \/ \E t \in Threads : uninstall_plugin_remove(t)
    \/ \E t \in Threads : uninstall_plugin_files(t)
    \/ \E t \in Threads : uninstall_plugin_permissions(t)
    \/ \E t \in Threads, p \in PluginIds : activate_plugin_with_rollback_call(t, p)
    \/ \E t \in Threads : activate_plugin_with_rollback_reset(t)
    \/ \E t \in Threads, p \in PluginIds, s \in GrantStrings : manager_grant_permission(t, p, s)


Spec == Init /\ [][Next]_vars


-----------------------------------------------------------------------------
(* PluginRegistry::update_state on its own: a registry holding plugins in  *)
(* any state (register takes whatever metadata it is given), and           *)
(* update_state called with every target.                                  *)

Registries ==
    UNION { [ids -> {PluginMetadata(st) : st \in PluginState}] : ids \in SUBSET PluginIds }

InitReg ==
    /\ ManagerInit
    /\ GuardInit /\ FsInit({NoLink}) /\ NetInit /\ StorageInit /\ AuditInit
    /\ ThreadInit(Threads)
    /\ \E reg \in Registries :
         /\ plugins = reg
         /\ manifests = [p \in DOMAIN reg |-> NoManifest]

registry_update_state(p, new_state) ==
    LET r == update_state(plugins, p, new_state)
    IN /\ plugins' = r.plugins
       /\ ret' = [ret EXCEPT ![1] = [NoRet EXCEPT !.name = "update_state", !.p = p,
                     !.err = r.err, !.start = StateOf(plugins, p), !.to = new_state]]
       /\ UNCHANGED <<manifests, activation_order, resources, diskVars, permVars,
                      guardVars, auto_approve, pc, op, local, trace>>

NextReg == \E p \in PluginIds, new_state \in PluginState : registry_update_state(p, new_state)

SpecReg == InitReg /\ [][NextReg]_vars

-----------------------------------------------------------------------------
(* The filesystem guard over its own permission manager, in an AppData    *)
(* directory that holds no link, a link to a directory outside AppData or *)
(* a link to a directory inside it.                                        *)

InitFs ==
    /\ RegistryInit /\ ManagerInit /\ ThreadInit(Threads)
    /\ guard_permissions = with_auto_approve(perm_file)
    /\ FsInit({NoLink, Outside, app_data_dir \o <<"d">>}) /\ NetInit /\ StorageInit /\ AuditInit

NextFs ==
    \/ \E t \in Threads, p \in PluginIds, g \in FsGrants :
         guard_grant_permission(t, p, g[1], g[2])
    \/ \E t \in Threads, p \in Callers, path \in Paths : read_file(t, p, path)
    \/ \E t \in Threads, p \in Callers, path \in Paths : write_file(t, p, path)
    \/ \E t \in Threads, p \in Callers, path \in Paths : list_files(t, p, path)
    \/ \E t \in Threads, p \in Callers, path \in Paths : watch_directory(t, p, path)
    \/ \E t \in Threads, p \in Callers : unwatch_directory(t, p)
    \/ \E t \in Threads, p \in Callers, path \in Paths : delete_file(t, p, path)
    \/ \E t \in Threads, p \in Callers, path \in Paths : create_directory(t, p, path)
    \/ \E t \in Threads, p \in Callers, path \in Paths : exists(t, p, path)

SpecFs == InitFs /\ [][NextFs]_vars

-----------------------------------------------------------------------------
(* The filesystem guard for a plugin whose only record is a read scope on  *)
(* the directory d: reads of d, of what d holds and of names beside d.     *)

ScopeGrant == <<"filesystem.read", AppDataSlash \o <<"d", "/", "*">> >>

ScopePaths == { <<"d">>, <<"d", "f">>, <<"d", "n">>, <<"dx">>, <<"n">> }

NextScope ==
    \/ \E t \in Threads : guard_grant_permission(t, "p1", ScopeGrant[1], ScopeGrant[2])
    \/ \E t \in Threads, path \in ScopePaths : read_file(t, "p1", path)
    \/ \E t \in Threads, path \in ScopePaths : list_files(t, "p1", path)
    \/ \E t \in Threads, path \in ScopePaths : exists(t, "p1", path)

SpecScope == InitFs /\ [][NextScope]_vars

-----------------------------------------------------------------------------
(* load_plugin_from_zip followed on the file system: the archive is        *)
(* extracted entry by entry into a fresh directory of the system's         *)
(* temporary directory, which is then moved to plugins/<id>.  An entry is  *)
(* the name the archive gives it and whether it is a directory.            *)

IoError == [kind |-> "IoError"]

\* std::env::temp_dir() and the directory vcp_plugin_<uuid> made in it
env_temp_dir == <<RootDir, "T">>
temp_dir == env_temp_dir \o <<"u">>
plugins_dir == app_data_dir \o <<"P">>

\* the path the operating system walks for a path with ".." components
RECURSIVE walk(_)
walk(path) ==
    IF path = <<>> THEN <<>>
    ELSE LET before == walk(parent(path))
         IN IF file_name(path) # ParentDir THEN Append(before, file_name(path))
            ELSE IF Len(before) > 1 THEN parent(before) ELSE before

ZipEntry(name, dir) == [name |-> name, dir |-> dir]

\* the loop over the archive's entries, left at the first error
RECURSIVE extract_entries(_, _)
extract_entries(f, entries) ==
    IF entries = <<>> THEN [ok |-> TRUE, fs |-> f]
    ELSE LET outpath == walk(join(temp_dir, Head(entries).name))
             made == create_dir_all(f, IF Head(entries).dir THEN outpath
                                       ELSE parent(outpath))
             created == IF Head(entries).dir THEN made ELSE write(made.fs, outpath)
         IN IF ~made.ok THEN made
            ELSE IF ~created.ok THEN created
            ELSE extract_entries(created.fs, Tail(entries))

\* std::fs::remove_dir_all and std::fs::rename of a directory
remove_tree(f, path) ==
    [f EXCEPT !.dirs = {d \in @ : ~starts_with(d, path)},
              !.files = {d \in @ : ~starts_with(d, path)}]

rename_dir(f, from, to) ==
    LET moved(paths) == {d \in paths : ~starts_with(d, from)}
                        \cup {to \o strip_prefix(d, from) : d \in {d \in paths : starts_with(d, from)}}
    IN [f EXCEPT !.dirs = moved(@), !.files = moved(@)]

ZipFile(p, valid, entries) ==
    [valid |-> valid, manifest |-> PluginManifest(p, <<>>, {"c.a"}, {}), entries |-> entries]

\* archives holding manifest.json (m): alone, with a manifest that does not
\* validate, with a directory, with an entry named ../x, with one named /O/x
\* and with one below manifest.json, which cannot be created
ZipFiles ==
    { ZipFile("p1", TRUE, <<ZipEntry(<<"m">>, FALSE)>>),
      ZipFile("p1", FALSE, <<ZipEntry(<<"m">>, FALSE)>>),
      ZipFile("p2", TRUE, <<ZipEntry(<<"s">>, TRUE), ZipEntry(<<"s", "m">>, FALSE),
                            ZipEntry(<<"m">>, FALSE)>>),
      ZipFile("p2", TRUE, <<ZipEntry(<<"m">>, FALSE), ZipEntry(<<ParentDir, "x">>, FALSE)>>),
      ZipFile("p2", TRUE, <<ZipEntry(<<"m">>, FALSE),
                            ZipEntry(<<RootDir, "O", "x">>, FALSE)>>),
      ZipFile("p1", TRUE, <<ZipEntry(<<"m">>, FALSE), ZipEntry(<<"m", "x">>, FALSE)>>) }

\* create_dir_all(&temp_dir) and the extraction; the directory is new, so
\* the call is followed only while the one name the model has for it is free
zip_extract(t, zip) ==
    /\ temp_dir \notin fs.dirs
    /\ \E made \in {create_dir_all(fs, temp_dir)} :
       \E r \in {extract_entries(made.fs, zip.entries)} :
          /\ fs' = r.fs
          /\ pc' = [pc EXCEPT ![t] = IF r.ok THEN "zip_move" ELSE "zip_failed"]
    /\ pc[t] = "idle"
    /\ op' = [op EXCEPT ![t] = [name |-> "install", p |-> zip.manifest.name, zip |-> zip]]
    /\ local' = [local EXCEPT ![t] =
                   [InitLocal EXCEPT !.start = StateOf(plugins, zip.manifest.name)]]
    /\ trace' = [trace EXCEPT ![t] = <<>>]
    /\ audit_log' = <<>>
    /\ ret' = [ret EXCEPT ![t] = NoRet]
    /\ UNCHANGED <<regVars, resources, diskVars, permissions, perm_file, auto_approve,
                   watchers, guard_log, guard_permissions, netVars, storageVars>>

zip_failed(t) ==
    /\ pc[t] = "zip_failed"
    /\ Return(t, IoError, local[t])
    /\ UNCHANGED <<regVars, resources, diskVars, permVars, guardVars, auto_approve, op,
                   trace>>

\* the manifest check and the move to plugins/<id>
zip_move(t) ==
    /\ pc[t] = "zip_move"
    /\ IF ~op[t].zip.valid \/ temp_dir \o <<"m">> \notin fs.files
       THEN /\ UNCHANGED <<fs, install_dirs>>
            /\ Return(t, ManifestValidation, local[t])
       ELSE /\ fs' = rename_dir(create_dir_all(remove_tree(fs, plugins_dir \o <<op[t].p>>),
                                               plugins_dir).fs,
                                temp_dir, plugins_dir \o <<op[t].p>>)
            /\ install_dirs' = install_dirs \cup {op[t].p}
            /\ Goto(t, "inst_register", [local[t] EXCEPT !.manifest = op[t].zip.manifest])
    /\ UNCHANGED <<regVars, resources, permVars, auditVars, auto_approve, op, trace,
                   watchers, guard_log, guard_permissions, netVars, storageVars>>

\* an AppData directory beside the system's temporary directory
InitDisk ==
    /\ RegistryInit /\ ManagerInit /\ ThreadInit(Threads)
    /\ guard_permissions = with_auto_approve(perm_file)
    /\ \E target \in {NoLink, Outside} :
          fs = [FileSystem(target) EXCEPT !.dirs = @ \cup {env_temp_dir}]
    /\ watchers = EmptyMap
    /\ guard_log = NoLog
    /\ NetInit /\ StorageInit /\ AuditInit

NextDisk ==
    \/ \E t \in Threads, zip \in ZipFiles : zip_extract(t, zip)
    \/ \E t \in Threads : zip_failed(t)
    \/ \E t \in Threads : zip_move(t)
    \/ \E t \in Threads : load_plugin_from_zip_register(t)

SpecDisk == InitDisk /\ [][NextDisk]_vars

-----------------------------------------------------------------------------
(* The plugin manager next to a guard: installs, uninstalls and grants go *)
(* through the manager, and a guard is constructed at some moment over the *)
(* same AppData directory.                                                 *)

NextShared ==
    \/ guard_new
    \/ \E t \in Threads, zip \in Archives : load_plugin_from_zip_call(t, zip)
    \/ \E t \in Threads : load_plugin_from_zip_extract(t)
    \/ \E t \in Threads : load_plugin_from_zip_register(t)
    \/ \E t \in Threads, p \in PluginIds : uninstall_plugin_call(t, p)
    \/ \E t \in Threads : uninstall_plugin_check(t)
    \/ \E t \in Threads : uninstall_plugin_remove(t)
    \/ \E t \in Threads : uninstall_plugin_files(t)
    \/ \E t \in Threads : uninstall_plugin_permissions(t)
    \/ \E t \in Threads, p \in PluginIds, s \in GrantStrings : manager_grant_permission(t, p, s)

SpecShared == Init /\ [][NextShared]_vars

-----------------------------------------------------------------------------
(* The network guard over its own permission manager, constructed in an   *)
(* AppData directory whose plugin-permissions.json holds a grant of the    *)
(* other plugin.                                                           *)

GrantedBefore ==
    save_permissions("p2" :> <<PluginPermission(NetGrant[1], NetGrant[2])>>)

InitNet ==
    /\ RegistryInit /\ ThreadInit(Threads)
    /\ activation_order = <<>>
    /\ resources = [p \in PluginIds |-> {}]
    /\ install_dirs = {}
    /\ perm_file = GrantedBefore
    /\ permissions = load(perm_file)
    /\ auto_approve \in BOOLEAN
    /\ audit_log = <<>>
    /\ guard_permissions = with_auto_approve(perm_file)
    /\ FsInit({NoLink}) /\ NetInit /\ StorageInit /\ AuditInit

NextNet ==
    \/ \E t \in Threads, p \in Callers, g \in NetGrants :
         guard_grant_permission(t, p, g[1], g[2])
    \/ \E t \in Threads, p \in Callers, req \in Requests : request(t, p, req)
    \/ tick
    \/ ttl_elapses

SpecNet == InitNet /\ [][NextNet]_vars

-----------------------------------------------------------------------------
(* The steps of one request: the plugin holding the grant asks for a URL   *)
(* it may reach, for one it may not and for a text that is no URL, with    *)
(* GET and with POST, while its bucket runs empty and the cache entries    *)
(* grow old.                                                               *)

ProxyUrls ==
    { Url("https://a.e.c/x", TRUE, <<"a", ".", "e", ".", "c">>),
      Url("https://x.y/", TRUE, <<"x", ".", "y">>),
      Url("x", FALSE, NoHost) }

ProxyRequests ==
    { HttpRequest(url, method, EmptyMap) : url \in ProxyUrls, method \in {"GET", "POST"} }

NextProxy ==
    \/ \E t \in Threads, req \in ProxyRequests : request(t, "p2", req)
    \/ tick
    \/ ttl_nearly_elapses
    \/ ttl_elapses

SpecProxy == InitNet /\ [][NextProxy]_vars

-----------------------------------------------------------------------------
(* One URL asked for with different credentials: GET requests of the       *)
(* plugin holding the grant that carry no Authorization header, or one of  *)
(* two values under either capitalisation of the header name.              *)

AuthHeaders ==
    {EmptyMap} \cup { name :> value : name \in {"Authorization", "authorization"},
                                      value \in {"s1", "s2"} }

AuthRequests ==
    { HttpRequest(Url("https://a.e.c/x", TRUE, <<"a", ".", "e", ".", "c">>), "GET", headers) :
        headers \in AuthHeaders }

NextAuth ==
    \/ \E t \in Threads, req \in AuthRequests : request(t, "p2", req)

SpecAuth == InitNet /\ [][NextAuth]_vars

-----------------------------------------------------------------------------
(* A plugin that watches a directory through the guard while the manager   *)
(* activates and deactivates it.                                           *)

WatchGrant == <<"filesystem.read", AppDataSlash \o <<"d", "/", "*">> >>

InitWatch ==
    /\ ThreadInit(Threads)
    /\ plugins = "p1" :> PluginMetadata("Installed")
    /\ manifests = "p1" :> PluginManifest("p1", <<>>, {"c.a"}, {"v.a"})
    /\ resources = [p \in PluginIds |-> {}]
    /\ activation_order = <<>>
    /\ install_dirs = {"p1"}
    /\ permissions = EmptyMap
    /\ perm_file = [exists |-> FALSE, permissions |-> EmptyMap]
    /\ auto_approve = TRUE
    /\ audit_log = <<>>
    /\ guard_permissions = with_auto_approve(perm_file)
    /\ FsInit({NoLink}) /\ NetInit /\ StorageInit /\ AuditInit

NextWatch ==
    \/ \E t \in Threads : guard_grant_permission(t, "p1", WatchGrant[1], WatchGrant[2])
    \/ \E t \in Threads, path \in {<<"d">>, <<"d", "f">>} : watch_directory(t, "p1", path)
    \/ \E t \in Threads : unwatch_directory(t, "p1")
    \/ \E t \in Threads : activate_plugin_call(t, "p1")
    \/ \E t \in Threads : activate_plugin_manifest(t)
    \/ \E t \in Threads : activate_plugin_permissions(t)
    \/ \E t \in Threads : activate_plugin_state(t)
    \/ \E t \in Threads : activate_plugin_loaded(t)
    \/ \E t \in Threads : activate_plugin_activated(t)
    \/ \E t \in Threads : activate_plugin_path(t)
    \/ \E t \in Threads : execute_activate_hook(t)
    \/ \E t \in Threads : activate_plugin_running(t)
    \/ \E t \in Threads : deactivate_plugin_call(t, "p1")
    \/ \E t \in Threads : deactivate_plugin_manifest(t)
    \/ \E t \in Threads : deactivate_plugin_state(t)
    \/ \E t \in Threads : deactivate_plugin_path(t)
    \/ \E t \in Threads : execute_deactivate_hook(t)

SpecWatch == InitWatch /\ [][NextWatch]_vars

-----------------------------------------------------------------------------
(* Two threads that each call activate_plugin_with_rollback once on the    *)
(* same Installed plugin; a step is what a call does under one acquisition *)
(* of a lock.                                                              *)

RaceThreads == {1, 2}

InitRace ==
    /\ ThreadInit(RaceThreads)
    /\ plugins = "p1" :> PluginMetadata("Installed")
    /\ manifests = "p1" :> PluginManifest("p1", <<PermNet>>, {"c.a"}, {"v.a"})
    /\ resources = [p \in PluginIds |-> {}]
    /\ activation_order = <<>>
    /\ install_dirs = {"p1"}
    /\ permissions = EmptyMap
    /\ perm_file = [exists |-> FALSE, permissions |-> EmptyMap]
    /\ auto_approve = TRUE
    /\ audit_log = <<>>
    /\ GuardInit /\ FsInit({NoLink}) /\ NetInit /\ StorageInit /\ AuditInit

\* the one call a thread makes
race_call(t) ==
    /\ ret[t] = NoRet
    /\ activate_plugin_with_rollback_call(t, "p1")

NextRace ==
    \/ \E t \in RaceThreads : race_call(t)
    \/ \E t \in RaceThreads : activate_plugin_manifest(t)
    \/ \E t \in RaceThreads : activate_plugin_permissions(t)
    \/ \E t \in RaceThreads : activate_plugin_state(t)
    \/ \E t \in RaceThreads : activate_plugin_loaded(t)
    \/ \E t \in RaceThreads : activate_plugin_activated(t)
    \/ \E t \in RaceThreads : activate_plugin_path(t)
    \/ \E t \in RaceThreads : execute_activate_hook(t)
    \/ \E t \in RaceThreads : activate_plugin_running(t)
    \/ \E t \in RaceThreads : deactivate_plugin_manifest(t)
    \/ \E t \in RaceThreads : deactivate_plugin_state(t)
    \/ \E t \in RaceThreads : deactivate_plugin_path(t)
    \/ \E t \in RaceThreads : execute_deactivate_hook(t)
    \/ \E t \in RaceThreads : activate_plugin_with_rollback_reset(t)

SpecRace == InitRace /\ [][NextRace]_vars

-----------------------------------------------------------------------------
(* The rate limiter under a burst: the plugin holding the grant repeats    *)
(* one GET as fast as it can while time goes by in ticks, and windows of   *)
(* time begin.                                                             *)

RateRequests ==
    {req \in Requests : req.method = "GET" /\ req.url.host = <<"a", ".", "e", ".", "c">>}

InitRate == InitNet /\ auto_approve

NextRate ==
    \/ \E t \in Threads, req \in RateRequests : request(t, "p2", req)
    \/ tick
    \/ window_begins("p2")

SpecRate == InitRate /\ [][NextRate]_vars

-----------------------------------------------------------------------------
(* The storage of two plugins behind one StorageAPI *)

NextStorage ==
    \/ \E t \in Threads, p \in PluginIds, kv \in Sets : set(t, p, kv[1], kv[2])
    \/ \E t \in Threads, p \in PluginIds, key \in Keys : get(t, p, key)
    \/ \E t \in Threads, p \in PluginIds, key \in Keys : delete(t, p, key)
    \/ \E t \in Threads, p \in PluginIds : clear(t, p)
    \/ \E t \in Threads, p \in PluginIds : keys(t, p)
    \/ \E t \in Threads, p \in PluginIds, key \in Keys : has(t, p, key)
    \/ \E t \in Threads, p \in PluginIds : size(t, p)
    \/ \E t \in Threads : storage_new(t)

SpecStorage == Init /\ [][NextStorage]_vars

-----------------------------------------------------------------------------
(* The storage of a plugin that the manager installs and uninstalls, and a *)
(* StorageAPI constructed again over the same directory.                   *)

NextKeep ==
    \/ \E t \in Threads, zip \in {Archive(TRUE, PluginManifest("p1", <<>>, {"c.a"}, {}))} :
         load_plugin_from_zip_call(t, zip)
    \/ \E t \in Threads : load_plugin_from_zip_extract(t)
    \/ \E t \in Threads : load_plugin_from_zip_register(t)
    \/ \E t \in Threads : uninstall_plugin_call(t, "p1")
    \/ \E t \in Threads : uninstall_plugin_check(t)
    \/ \E t \in Threads : uninstall_plugin_remove(t)
    \/ \E t \in Threads : uninstall_plugin_files(t)
    \/ \E t \in Threads : uninstall_plugin_permissions(t)
    \/ \E t \in Threads, value \in {"\"v1\"", "42"} : set(t, "p1", "k", value)
    \/ \E t \in Threads : get(t, "p1", "k")
    \/ \E t \in Threads : delete(t, "p1", "k")
    \/ \E t \in Threads : clear(t, "p1")
    \/ \E t \in Threads : storage_new(t)

SpecKeep == Init /\ [][NextKeep]_vars

-----------------------------------------------------------------------------
(* set, delete and clear of one plugin called from two threads.  A step is *)
(* what a call does under one acquisition of the storage lock: load the    *)
(* plugin's map if it is not in memory, change the map, write the file     *)
(* from the map as it then is.                                             *)

StorageCalls ==
    { [name |-> "set", p |-> "p1", key |-> "k", value |-> "\"v1\""],
      [name |-> "set", p |-> "p1", key |-> "k", value |-> "42"],
      [name |-> "set", p |-> "p1", key |-> "j", value |-> "v1"],
      [name |-> "delete", p |-> "p1", key |-> "k", value |-> ""],
      [name |-> "clear", p |-> "p1", key |-> "", value |-> ""] }

\* self.ensure_loaded(plugin_id)?
storage_ensure_loaded(t, call) ==
    /\ pc[t] = "idle"
    /\ op' = [op EXCEPT ![t] = call]
    /\ storage' = ensure_loaded(storage, storage_files, call.p)
    /\ pc' = [pc EXCEPT ![t] = "st_update"]
    /\ ret' = [ret EXCEPT ![t] = NoRet]
    /\ UNCHANGED <<regVars, resources, diskVars, permVars, guard_permissions,
                   auto_approve, local, trace, fsVars, netVars, storage_files, latest>>

\* the change of the map, before drop(storage)
storage_update(t) ==
    /\ pc[t] = "st_update"
    /\ \E data \in {CASE op[t].name = "set" ->
                         insert(storage[op[t].p], op[t].key, parse_value(op[t].value))
                      [] op[t].name = "delete" -> remove_key(storage[op[t].p], op[t].key)
                      [] OTHER -> EmptyMap} :
          /\ storage' = [storage EXCEPT ![op[t].p] = data]
          /\ local' = [local EXCEPT ![t] = [data |-> data]]
    /\ pc' = [pc EXCEPT ![t] = "st_save"]
    /\ UNCHANGED <<regVars, resources, diskVars, permVars, guard_permissions,
                   auto_approve, op, trace, ret, fsVars, netVars, storage_files, latest>>

\* the file written from the map as the call left it
mutant_storage_save(t) ==
    /\ pc[t] = "st_save"
    /\ storage_files' = save_storage(storage_files, op[t].p, local[t].data)
    /\ pc' = [pc EXCEPT ![t] = "idle"]
    /\ local' = [local EXCEPT ![t] = InitLocal]
    /\ ret' = [ret EXCEPT ![t] = [NoRet EXCEPT !.name = op[t].name, !.p = op[t].p]]
    /\ UNCHANGED <<regVars, resources, diskVars, permVars, guard_permissions,
                   auto_approve, op, trace, fsVars, netVars, storage, latest>>

\* the lock taken again, and self.save_storage(plugin_id, plugin_data)?
storage_save(t) ==
    /\ pc[t] = "st_save"
    /\ storage_files' = save_storage(storage_files, op[t].p, storage[op[t].p])
    /\ pc' = [pc EXCEPT ![t] = "idle"]
    /\ local' = [local EXCEPT ![t] = InitLocal]
    /\ ret' = [ret EXCEPT ![t] = [NoRet EXCEPT !.name = op[t].name, !.p = op[t].p]]
    /\ UNCHANGED <<regVars, resources, diskVars, permVars, guard_permissions,
                   auto_approve, op, trace, fsVars, netVars, storage, latest>>

InitShare ==
    /\ RegistryInit /\ ManagerInit /\ ThreadInit({1, 2})
    /\ GuardInit /\ FsInit({NoLink}) /\ NetInit /\ StorageInit /\ AuditInit

NextShare ==
    \/ \E t \in {1, 2}, call \in StorageCalls : storage_ensure_loaded(t, call)
    \/ \E t \in {1, 2} : storage_update(t)
    \/ \E t \in {1, 2} : storage_save(t)

SpecShare == InitShare /\ [][NextShare]_vars

-----------------------------------------------------------------------------
(* write_file called from two threads on different targets of one          *)
(* directory.  A step is one access to the file system: the validation     *)
(* with create_dir_all, the write of the temporary file, the rename.  The  *)
(* file system keeps what each file holds.                                 *)

\* the targets each thread writes, and what it writes there
WriteCalls(t) ==
    IF t = 1
    THEN { [path |-> <<"d", "a.txt">>, contents |-> "c1"],
           [path |-> <<"d", "b.txt">>, contents |-> "c2"] }
    ELSE { [path |-> <<"d", "a.json">>, contents |-> "c3"],
           [path |-> <<"d", "a.json">>, contents |-> "c4"] }

WriteGrant == <<"filesystem.write", Star>>

WriteReturn(t, err, operations) ==
    /\ guard_log' = [validation |-> local[t].v.log, audit |-> operations]
    /\ pc' = [pc EXCEPT ![t] = "idle"]
    /\ local' = [local EXCEPT ![t] = InitLocal]
    /\ ret' = [ret EXCEPT ![t] =
                 [name |-> "write_file", p |-> op[t].p, path |-> op[t].path,
                  contents |-> op[t].contents, err |-> err, accepted |-> TRUE,
                  validated |-> local[t].v.path]]

\* validate_path and fs::create_dir_all(parent)
write_file_validate(t, p, call) ==
    /\ pc[t] = "idle"
    /\ guard_permissions.constructed
    /\ op' = [op EXCEPT ![t] = [name |-> "write_file", p |-> p, path |-> call.path,
                                contents |-> call.contents]]
    /\ \E v \in {validate_path(guard_permissions.permissions, fs, p, call.path, TRUE)} :
          IF v.err # Ok
          THEN /\ guard_log' = [validation |-> v.log, audit |-> <<>>]
               /\ ret' = [ret EXCEPT ![t] =
                            [name |-> "write_file", p |-> p, path |-> call.path,
                             contents |-> call.contents, err |-> v.err,
                             accepted |-> FALSE, validated |-> v.path]]
               /\ UNCHANGED <<fs, pc, local>>
          ELSE /\ fs' = create_dir_all(fs, parent(v.path)).fs
               /\ pc' = [pc EXCEPT ![t] = "wf_write"]
               /\ local' = [local EXCEPT ![t] = [v |-> v]]
               /\ ret' = [ret EXCEPT ![t] = NoRet]
               /\ UNCHANGED guard_log
    /\ UNCHANGED <<regVars, resources, diskVars, permVars, guard_permissions,
                   auto_approve, trace, watchers, netVars, storageVars>>

\* fs::write(&temp_path, contents)
write_file_temp(t) ==
    /\ pc[t] = "wf_write"
    /\ \E temp_path \in {with_extension(local[t].v.path)} :
       \E written \in {write(fs, temp_path)} :
          IF ~written.ok
          THEN /\ UNCHANGED fs
               /\ WriteReturn(t, FileSystemError("Failed to write temp file"),
                              <<log_operation(op[t].p, "write", local[t].v.path, FALSE, "io")>>)
          ELSE /\ fs' = [written.fs EXCEPT
                           !.contents = (resolve(fs, temp_path) :> op[t].contents) @@ @]
               /\ pc' = [pc EXCEPT ![t] = "wf_rename"]
               /\ UNCHANGED <<local, ret, guard_log>>
    /\ UNCHANGED <<regVars, resources, diskVars, permVars, guard_permissions,
                   auto_approve, op, trace, watchers, netVars, storageVars>>

\* fs::rename(&temp_path, &validated_path), and fs::remove_file(&temp_path)
\* when it fails
write_file_rename(t) ==
    /\ pc[t] = "wf_rename"
    /\ \E temp_path \in {with_extension(local[t].v.path)} :
       \E renamed \in {rename(fs, temp_path, local[t].v.path)} :
          IF ~renamed.ok
          THEN /\ fs' = remove_file(fs, temp_path).fs
               /\ WriteReturn(t, FileSystemError("Failed to rename temp file"),
                              <<log_operation(op[t].p, "write", local[t].v.path, FALSE, "io")>>)
          ELSE /\ fs' = [renamed.fs EXCEPT
                           !.contents =
                              (resolve(fs, local[t].v.path) :> @[resolve(fs, temp_path)])
                                 @@ [q \in DOMAIN @ \ {resolve(fs, temp_path)} |-> @[q]]]
               /\ WriteReturn(t, Ok,
                              <<log_operation(op[t].p, "write", local[t].v.path, TRUE, NoError)>>)
    /\ UNCHANGED <<regVars, resources, diskVars, permVars, guard_permissions,
                   auto_approve, op, trace, watchers, netVars, storageVars>>

InitTemp ==
    /\ RegistryInit /\ ManagerInit /\ ThreadInit({1, 2})
    /\ guard_permissions = with_auto_approve(perm_file)
    /\ fs = [contents |-> [q \in FileSystem(NoLink).files |-> "c0"]] @@ FileSystem(NoLink)
    /\ watchers = EmptyMap
    /\ guard_log = NoLog
    /\ NetInit /\ StorageInit /\ AuditInit

NextTemp ==
    \/ \E t \in {1, 2} : guard_grant_permission(t, "p1", WriteGrant[1], WriteGrant[2])
    \/ \E t \in {1, 2} : \E call \in WriteCalls(t) : write_file_validate(t, "p1", call)
    \/ \E t \in {1, 2} : write_file_temp(t)
    \/ \E t \in {1, 2} : write_file_rename(t)

SpecTemp == InitTemp /\ [][NextTemp]_vars

-----------------------------------------------------------------------------
(* A PermissionManager called directly: grant_permission,                  *)
(* request_permission, revoke_permission and revoke_all_permissions on one *)
(* instance, and a new instance constructed over the same AppData          *)
(* directory.                                                              *)

mutant_revoke_permission(st, p, permission_type) ==
    [st EXCEPT !.permissions = remove_key(@, p), !.file = save_permissions(st.permissions)]

revoke_permission(st, p, permission_type) ==
    LET perms2 == IF p \in DOMAIN st.permissions
                  THEN [st.permissions EXCEPT ![p] =
                          SelectSeq(@, LAMBDA r : r.permission_type # permission_type)]
                  ELSE st.permissions
    IN [permissions |-> perms2,
        file |-> save_permissions(perms2),
        log |-> IF p \in DOMAIN st.permissions
                THEN Append(st.log, AuditLogEntry(p, permission_type, Star,
                                                  "revoke", TRUE, NoError))
                ELSE st.log,
        err |-> Ok]

\* the permission strings request_permission is called with: scopes the
\* validation accepts and scopes it is to reject
ScopeStrings ==
    { <<"network.request", ":", "*", ".", "e", ".", "c">>,
      <<"network.request", ":", "a", ".", "*">>,
      <<"network.request", ":", "a", "b">>,
      <<"network.request", ":">>,
      <<"filesystem.read", ":">> \o AppDataSlash \o <<"p", "/", "*">>,
      <<"filesystem.read", ":", "/", "e", "t", "c">>,
      <<"b", "o", "g", "u", "s", ":", "*">> }

\* the same as the typed arguments of grant_permission
ScopeArguments ==
    { <<from_str(splitn2(s, ":")[1]), splitn2(s, ":")[2]>> :
        s \in {s \in ScopeStrings : from_str(splitn2(s, ":")[1]) # NoType} }

\* what a call on the PermissionManager leaves behind
PermissionReturn(t, name, p, permission_type, resource_scope, r) ==
    /\ pc[t] = "idle"
    /\ permissions' = r.permissions
    /\ perm_file' = r.file
    /\ audit_log' = r.log
    /\ ret' = [ret EXCEPT ![t] =
                 [name |-> name, p |-> p, err |-> r.err,
                  permission_type |-> permission_type,
                  resource_scope |-> resource_scope]]
    /\ UNCHANGED <<regVars, resources, diskVars, guardVars, auto_approve, pc, op,
                   local, trace>>

Records(perms, p) == IF p \in DOMAIN perms THEN perms[p] ELSE <<>>

pm_grant_permission(t, p, permission_type, resource_scope) ==
    /\ Len(Records(permissions, p)) < MaxRecords
    /\ PermissionReturn(t, "pm_grant", p, permission_type, resource_scope,
                        grant_permission(Store(permissions, perm_file, <<>>),
                                         p, permission_type, resource_scope))

pm_request_permission(t, p, permission_str) ==
    /\ Len(Records(permissions, p)) < MaxRecords
    /\ PermissionReturn(t, "pm_request", p, from_str(splitn2(permission_str, ":")[1]),
                        IF Len(splitn2(permission_str, ":")) > 1
                        THEN splitn2(permission_str, ":")[2] ELSE Star,
                        request_permission(Store(permissions, perm_file, <<>>),
                                           auto_approve, p, permission_str))

pm_revoke_permission(t, p, permission_type) ==
    /\ pc[t] = "idle"
    /\ PermissionReturn(t, "pm_revoke", p, permission_type, Star,
                     revoke_permission(Store(permissions, perm_file, <<>>),
                                       p, permission_type))

pm_revoke_all_permissions(t, p) ==
    /\ pc[t] = "idle"
    /\ PermissionReturn(t, "pm_revoke_all", p, NoType, Star,
                     revoke_all_permissions(Store(permissions, perm_file, <<>>), p))

\* PermissionManager::with_auto_approve over the same directory
pm_new(t) ==
    /\ pc[t] = "idle"
    /\ PermissionReturn(t, "pm_new", NoPlugin, NoType, Star,
                     Store(with_auto_approve(perm_file).permissions, perm_file, <<>>))

\* validate_network_permission: the answer, and the entry log_validation adds
pm_validate_network_permission(t, p, domain) ==
    /\ pc[t] = "idle"
    /\ audit_log' = <<validate_network_log(permissions, p, domain)>>
    /\ ret' = [ret EXCEPT ![t] =
                 [name |-> "pm_validate_network", p |-> p, err |-> Ok, domain |-> domain,
                  result |-> validate_network_permission(permissions, p, domain)]]
    /\ UNCHANGED <<regVars, resources, diskVars, guardVars, auto_approve, pc, op,
                   local, trace, permissions, perm_file>>

NextPerm ==
    \/ \E t \in Threads, p \in PluginIds, a \in ScopeArguments :
          pm_grant_permission(t, p, a[1], a[2])
    \/ \E t \in Threads, p \in PluginIds, s \in ScopeStrings :
          pm_request_permission(t, p, s)
    \/ \E t \in Threads, p \in PluginIds,
          permission_type \in {"network.request", "filesystem.read"} :
          pm_revoke_permission(t, p, permission_type)
    \/ \E t \in Threads, p \in PluginIds : pm_revoke_all_permissions(t, p)
    \/ \E t \in Threads : pm_new(t)

SpecPerm == Init /\ [][NextPerm]_vars

\* A PermissionManager constructed over a plugin-permissions.json that
\* earlier grants left behind: records of two types and several scopes.
HeldBefore ==
    LET n1 == PluginPermission("network.request", <<"*", ".", "e", ".", "c">>)
        n2 == PluginPermission("network.request", Star)
        f == PluginPermission("filesystem.read", AppDataSlash \o <<"p", "/", "*">>)
    IN {<<>>, <<n1>>, <<f>>, <<n1, n2>>, <<n1, f>>, <<n1, f, n2>>}

InitRevoke ==
    /\ RegistryInit /\ ThreadInit(Threads)
    /\ activation_order = <<>>
    /\ resources = [p \in PluginIds |-> {}]
    /\ install_dirs = {}
    /\ \E r1 \in HeldBefore, r2 \in HeldBefore :
          perm_file = save_permissions(("p1" :> r1) @@ ("p2" :> r2))
    /\ permissions = load(perm_file)
    /\ auto_approve = TRUE
    /\ audit_log = <<>>
    /\ GuardInit /\ FsInit({NoLink}) /\ NetInit /\ StorageInit /\ AuditInit

NextRevoke ==
    \/ \E t \in Threads, p \in PluginIds,
          permission_type \in {"network.request", "filesystem.read", "filesystem.write"} :
          pm_revoke_permission(t, p, permission_type)
    \/ \E t \in Threads, p \in PluginIds : pm_revoke_all_permissions(t, p)
    \/ \E t \in Threads : pm_new(t)

SpecRevoke == InitRevoke /\ [][NextRevoke]_vars

\* the network scopes granted and the hosts checked against them
DomainScopes ==
    { Star, <<"a", ".", "b">>, <<"*", ".", "e", ".", "c">>, <<"a", ".", "*">> }

Hosts ==
    { <<"e", ".", "c">>, <<"a", ".", "e", ".", "c">>, <<"n", "e", ".", "c">>,
      <<"a", ".", "b">>, <<"x", ".", "a", ".", "b">> }

NextDomain ==
    \/ \E t \in Threads, scope \in DomainScopes :
          pm_grant_permission(t, "p1", "network.request", scope)
    \/ \E t \in Threads : pm_revoke_all_permissions(t, "p1")
    \/ \E t \in Threads, p \in PluginIds, domain \in Hosts :
          pm_validate_network_permission(t, p, domain)

SpecDomain == Init /\ [][NextDomain]_vars

-----------------------------------------------------------------------------
(* The production configuration: auto_approve is false.  Plugins whose    *)
(* manifests declare permissions are loaded and activated, with and        *)
(* without rollback, permissions are granted through the plugin manager,   *)
(* and its permission manager is asked for permissions.                    *)

DeniedArchives ==
    { Archive(TRUE, PluginManifest("p1", <<PermFsRead, PermNet>>, {"c.a"}, {"v.a"})),
      Archive(TRUE, PluginManifest("p2", <<PermNet>>, {"c.a"}, {})) }

\* a permission that could be granted, a scope outside AppData, an unknown type
DeniedRequests == {PermNet, PermFsOutside, PermUnknown}

InitDenied == Init /\ ~auto_approve

NextDenied ==
    \/ \E t \in Threads, zip \in DeniedArchives : load_plugin_from_zip_call(t, zip)
    \/ \E t \in Threads : load_plugin_from_zip_extract(t)
    \/ \E t \in Threads : load_plugin_from_zip_register(t)
    \/ \E t \in Threads, p \in PluginIds : activate_plugin_call(t, p)
    \/ \E t \in Threads : activate_plugin_manifest(t)
    \/ \E t \in Threads : activate_plugin_permissions(t)
    \/ \E t \in Threads : activate_plugin_state(t)
    \/ \E t \in Threads : activate_plugin_loaded(t)
    \/ \E t \in Threads : activate_plugin_activated(t)
    \/ \E t \in Threads : activate_plugin_path(t)
    \/ \E t \in Threads : execute_activate_hook(t)
    \/ \E t \in Threads : activate_plugin_running(t)
    \/ \E t \in Threads : deactivate_plugin_manifest(t)
    \/ \E t \in Threads : deactivate_plugin_state(t)
    \/ \E t \in Threads : deactivate_plugin_path(t)
    \/ \E t \in Threads : execute_deactivate_hook(t)
    \/ \E t \in Threads, p \in PluginIds : activate_plugin_with_rollback_call(t, p)
    \/ \E t \in Threads : activate_plugin_with_rollback_reset(t)
    \/ \E t \in Threads, p \in PluginIds, s \in GrantStrings : manager_grant_permission(t, p, s)
    \/ \E t \in Threads, s \in DeniedRequests : pm_request_permission(t, "p2", s)

SpecDenied == InitDenied /\ [][NextDenied]_vars


-----------------------------------------------------------------------------
(* activate_plugin and deactivate_plugin on a registry whose plugins are in *)
(* any state (register takes whatever metadata it is given, and a call of  *)
(* another thread sees the states between the steps of an activation).     *)
(* A plugin that is Running has its contributions tracked, one that is     *)
(* Activated may have, the others have none.                               *)

LifeManifest(p) == PluginManifest(p, <<>>, {"c.a"}, {"v.a"})

Tracked(reg, p) ==
    IF p \notin DOMAIN reg THEN {{}}
    ELSE IF reg[p].state = "Running" THEN {Contributions(LifeManifest(p))}
    ELSE IF reg[p].state = "Activated" THEN {{}, Contributions(LifeManifest(p))}
    ELSE {{}}

InitLife ==
    /\ ThreadInit(Threads)
    /\ GuardInit /\ FsInit({NoLink}) /\ NetInit /\ StorageInit /\ AuditInit
    /\ \E reg \in Registries :
         /\ plugins = reg
         /\ manifests = [p \in DOMAIN reg |-> LifeManifest(p)]
         /\ \E r1 \in Tracked(reg, "p1"), r2 \in Tracked(reg, "p2") :
               resources = ("p1" :> r1) @@ ("p2" :> r2)
    /\ activation_order = <<>>
    /\ install_dirs = DOMAIN plugins
    /\ permissions = EmptyMap
    /\ perm_file = [exists |-> FALSE, permissions |-> EmptyMap]
    /\ auto_approve \in BOOLEAN
    /\ audit_log = <<>>

NextLife ==
    \/ \E t \in Threads, p \in PluginIds : activate_plugin_call(t, p)
    \/ \E t \in Threads : activate_plugin_manifest(t)
    \/ \E t \in Threads : activate_plugin_permissions(t)
    \/ \E t \in Threads : activate_plugin_state(t)
    \/ \E t \in Threads : activate_plugin_loaded(t)
    \/ \E t \in Threads : activate_plugin_activated(t)
    \/ \E t \in Threads : activate_plugin_path(t)
    \/ \E t \in Threads : execute_activate_hook(t)
    \/ \E t \in Threads : activate_plugin_running(t)
    \/ \E t \in Threads, p \in PluginIds : deactivate_plugin_call(t, p)
    \/ \E t \in Threads : deactivate_plugin_manifest(t)
    \/ \E t \in Threads : deactivate_plugin_state(t)
    \/ \E t \in Threads : deactivate_plugin_path(t)
    \/ \E t \in Threads : execute_deactivate_hook(t)

SpecLife == InitLife /\ [][NextLife]_vars

-----------------------------------------------------------------------------
(* resolve_dependencies over a registry of up to three plugins whose       *)
(* manifests depend on one another, on themselves and on plugins that are  *)
(* not registered, the dependencies of a manifest in any order.            *)

DepIds == {"a", "b", "c"}

DepLists ==
    { deps \in UNION { [1..n -> DepIds] : n \in 0..MaxDeps } :
        \A i, j \in 1..Len(deps) : i # j => deps[i] # deps[j] }

InitDeps ==
    /\ ManagerInit /\ ThreadInit(Threads)
    /\ GuardInit /\ FsInit({NoLink}) /\ NetInit /\ StorageInit /\ AuditInit
    /\ \E ids \in SUBSET DepIds : \E g \in [ids -> DepLists] :
         /\ plugins = [p \in ids |-> PluginMetadata("Installed")]
         /\ manifests = [p \in ids |->
                           [PluginManifest(p, <<>>, {}, {}) EXCEPT !.dependencies = g[p]]]

resolve_dependencies_call(t, p) ==
    /\ pc[t] = "idle"
    /\ \E r \in {resolve_dependencies(manifests, p)} :
          ret' = [ret EXCEPT ![t] =
                    [name |-> "resolve", p |-> p, err |-> r.err, order |-> r.order]]
    /\ UNCHANGED <<regVars, resources, diskVars, permVars, guardVars, auto_approve,
                   pc, op, local, trace>>

NextDeps == \E t \in Threads, p \in DepIds : resolve_dependencies_call(t, p)

SpecDeps == InitDeps /\ [][NextDeps]_vars

-----------------------------------------------------------------------------
(* An AuditLogger called directly while the days pass: ten days, or the   *)
(* retention period, or a day more than it.                                *)

audit_log_permission_check(t) ==
    /\ pc[t] = "idle"
    /\ log_files' = log_permission_check(log_files, today)
    /\ logged_days' = logged_days \cup {today}
    /\ UNCHANGED <<regVars, resources, install_dirs, today, permVars, guardVars,
                   auto_approve, pc, op, local, trace, ret>>

DaysPassing == {10, retention, retention + 1}

days_pass(n) ==
    /\ today + n <= retention + 1 + MaxDay
    /\ today' = today + n
    /\ UNCHANGED <<regVars, resources, install_dirs, log_files, logged_days, permVars,
                   guardVars, auto_approve, pc, op, local, trace, ret>>

NextAudit ==
    \/ \E t \in Threads : audit_log_permission_check(t)
    \/ \E n \in DaysPassing : days_pass(n)

SpecAudit == Init /\ [][NextAudit]_vars

-----------------------------------------------------------------------------
(* Claims *)

LegalEdges ==
    { <<"Uninstalled", "Installed">>, <<"Installed", "Loaded">>,
      <<"Installed", "Uninstalled">>, <<"Loaded", "Activated">>,
      <<"Activated", "Running">>, <<"Running", "Deactivated">>,
      <<"Deactivated", "Activated">>, <<"Deactivated", "Installed">>,
      <<"Deactivated", "Uninstalled">> }

\* C1: update_state(p, to) on a registered plugin in state from succeeds and
\* stores to exactly when (from, to) is one of the nine legal edges; for every
\* other pair it returns InvalidStateTransition{from, to} and the state stays.
C1_UpdateStateFollowsTable ==
    LET r == ret[1]
    IN (r.name = "update_state" /\ r.start \in PluginState) =>
         IF <<r.start, r.to>> \in LegalEdges
         THEN r.err = Ok /\ plugins[r.p].state = r.to
         ELSE /\ r.err = InvalidStateTransition(r.start, r.to)
              /\ plugins[r.p].state = r.start

C1_Witness ==
    /\ ret[1].name = "update_state"
    /\ ret[1].start = "Running"
    /\ ret[1].to = "Installed"
    /\ ret[1].err.kind = "InvalidStateTransition"
    /\ plugins[ret[1].p].state = "Running"


Idle == \A t \in DOMAIN pc : pc[t] = "idle"

Count(seq, x) == Cardinality({i \in 1..Len(seq) : seq[i] = x})

\* C5: after uninstall_plugin(p) returns success, p is in no listing and has
\* no state, plugins/<p> is gone, the permission store holds no record of p
\* in memory or in the file, and a plugin that was Running was deactivated
\* first, leaving none of its resources tracked.
C5_UninstallRemovesEverything ==
    \A t \in DOMAIN pc :
        (pc[t] = "idle" /\ ret[t].name = "uninstall" /\ ret[t].err = Ok) =>
            LET p == ret[t].p
            IN /\ ret[t].start \in {"Installed", "Running", "Deactivated"}
               /\ p \notin DOMAIN plugins
               /\ StateOf(plugins, p) = NoPlugin
               /\ p \notin install_dirs
               /\ p \notin DOMAIN permissions
               /\ perm_file.exists /\ p \notin DOMAIN perm_file.permissions
               /\ ret[t].start = "Running" =>
                    /\ trace[t] = << <<p, "Running", "Deactivated">>,
                                     <<p, "Deactivated", NoPlugin>> >>
                    /\ resources[p] = {}

C5_Witness ==
    /\ pc[1] = "idle"
    /\ ret[1].name = "uninstall"
    /\ ret[1].err = Ok
    /\ ret[1].start = "Running"
    /\ ret[1].p = "p1"
    /\ "p2" \in DOMAIN permissions

AllHeld(p) ==
    /\ p \in DOMAIN manifests
    /\ \A i \in 1..Len(manifests[p].permissions) :
         has_permission(permissions, p, manifests[p].permissions[i])

ActivationPath(p, start) ==
    IF start = "Installed"
    THEN << <<p, "Installed", "Loaded">>, <<p, "Loaded", "Activated">>,
            <<p, "Activated", "Running">> >>
    ELSE << <<p, "Deactivated", "Activated">>, <<p, "Activated", "Running">> >>

\* C6: activate_plugin(p) on a registered plugin whose declared permissions
\* are held when the permission step is over goes Installed -> Loaded ->
\* Activated -> Running, or Deactivated -> Activated -> Running, runs the
\* activate hook while the state is Activated, and returns with p Running and
\* exactly once in the activation order.
C6_ActivationPath ==
    \A t \in DOMAIN pc :
        (/\ pc[t] = "idle"
         /\ ret[t].name = "activate"
         /\ ret[t].start \in {"Installed", "Deactivated"}
         /\ AllHeld(ret[t].p)) =>
            /\ ret[t].err = Ok
            /\ trace[t] = ActivationPath(ret[t].p, ret[t].start)
            /\ ret[t].hook_state = "Activated"
            /\ plugins[ret[t].p].state = "Running"
            /\ Count(activation_order, ret[t].p) = 1

C6_Witness ==
    /\ pc[1] = "idle"
    /\ ret[1].name = "activate"
    /\ ret[1].start = "Deactivated"
    /\ ret[1].err = Ok
    /\ ret[1].p = "p1"
    /\ "p1" \in DOMAIN permissions
    /\ Len(permissions["p1"]) >= 2
    /\ activation_order = <<"p2", "p1">>

\* C7: when activate_plugin_with_rollback(p) returns an error for a
\* registered plugin, the plugin is Installed and the error is the one the
\* activation raised, not the one of the rollback's own deactivate attempt.
C7_RollbackReturnsActivationError ==
    \A t \in DOMAIN pc :
        (/\ pc[t] = "idle"
         /\ ret[t].name = "rollback"
         /\ ret[t].err # Ok
         /\ ret[t].start # NoPlugin) =>
            /\ plugins[ret[t].p].state = "Installed"
            /\ ret[t].err = ret[t].e
            /\ ret[t].sub # Ok => ret[t].err # ret[t].sub

C7_Witness ==
    /\ pc[1] = "idle"
    /\ ret[1].name = "rollback"
    /\ ret[1].start = "Installed"
    /\ ret[1].err.kind = "PermissionDenied"
    /\ ret[1].sub.kind = "InvalidStateTransition"

AsState(s) == IF s = NoPlugin THEN "Uninstalled" ELSE s

\* C8: every write an operation makes to a plugin's recorded state follows one
\* edge of the legal transition table, absence from the registry counting as
\* Uninstalled.
C8_EveryWriteIsLegalEdge ==
    \A t \in DOMAIN trace : \A i \in 1..Len(trace[t]) :
        \/ trace[t][i][2] = trace[t][i][3]
        \/ <<AsState(trace[t][i][2]), AsState(trace[t][i][3])>> \in LegalEdges


FsOperations ==
    {"read_file", "write_file", "list_files", "watch_directory", "delete_file",
     "create_directory", "exists"}

RightType(name) ==
    IF name \in {"write_file", "delete_file", "create_directory"}
    THEN "filesystem.write" ELSE "filesystem.read"

\* C2: a filesystem-guard operation accepted for (plugin, path P) has P free
\* of `..` and not absolute, touches a real location below the canonical
\* AppData root, and its plugin holds a granted permission of the right type
\* whose scope matches the AppData-relative path of that location.
C2_AcceptedOperationIsConfined ==
    \A t \in DOMAIN ret :
        (ret[t].name \in FsOperations /\ ret[t].accepted) =>
            /\ ParentDir \notin Range(ret[t].path)
            /\ ~is_absolute(ret[t].path)
            /\ starts_with(ret[t].touched, app_data_dir)
            /\ filesystem_match(guard_permissions.permissions, ret[t].p,
                                RightType(ret[t].name),
                                to_string_lossy(strip_prefix(ret[t].touched, app_data_dir)))

CheckedPaths == {app_data_dir \o <<"p", "x">>, app_data_dir \o <<"d", "f">>}
CheckedHosts == {<<"a", ".", "e", ".", "c">>, <<"x", ".", "y">>}

\* C4: once a grant through PluginManager.grant_permission, or the
\* revoke_all of uninstall_plugin, has returned successfully, the manager's
\* has_permission and an already constructed guard's validate_filesystem
\* and validate_network answer from the same permission set.
C4_GuardsSeeManagerGrants ==
    \A t \in DOMAIN pc :
        (/\ pc[t] = "idle"
         /\ ret[t].name \in {"grant", "uninstall"}
         /\ ret[t].err = Ok
         /\ guard_permissions.constructed) =>
            \A p \in PluginIds :
                /\ \A s \in GrantStrings :
                     has_permission(guard_permissions.permissions, p, s)
                        = has_permission(permissions, p, s)
                /\ \A path \in CheckedPaths, w \in BOOLEAN :
                     validate_filesystem_permission(guard_permissions.permissions,
                                                    fs, p, path, w).ok
                        = validate_filesystem_permission(permissions, fs, p, path, w).ok
                /\ \A host \in CheckedHosts :
                     validate_network_permission(guard_permissions.permissions, p, host)
                        = validate_network_permission(permissions, p, host)


\* C3: a call to NetworkProxy.request that returns a response, from the
\* cache or from the network, was made for a URL whose host matches a granted
\* network.request scope of the calling plugin, and took exactly one token
\* off what that plugin's bucket held once refilled.
C3_ResponseWasAdmittedAndPaid ==
    \A t \in DOMAIN ret :
        (ret[t].name = "request" /\ ret[t].err = Ok) =>
            LET p == ret[t].p
                host == ret[t].req.url.host
                perms == guard_permissions.permissions
                held == IF ret[t].before.present
                        THEN Min(ret[t].before.tokens
                                    + ret[t].before.since * refill_rate, capacity)
                        ELSE capacity
            IN /\ ret[t].source \in {"cache", "network"}
               /\ ret[t].req.url.parses /\ host # NoHost
               /\ p \in DOMAIN perms
               /\ \E i \in 1..Len(perms[p]) :
                    /\ perms[p][i].permission_type = "network.request"
                    /\ perms[p][i].granted
                    /\ \/ perms[p][i].resource_scope = Star
                       \/ matches_domain(host, perms[p][i].resource_scope)
               /\ p \in DOMAIN rate_limiters
               /\ rate_limiters[p].tokens = held - 1

C3_Witness ==
    /\ ret[1].name = "request"
    /\ ret[1].err = Ok
    /\ ret[1].source = "cache"
    /\ ret[1].before.present
    /\ ret[1].before.tokens < capacity
    /\ ret[1].before.since > 0


\* what get, has, keys and size under q answer from: q's map when it is
\* loaded, q's file otherwise, each value as get returns it
Observed(q) ==
    LET data == IF q \in DOMAIN storage THEN storage[q]
                ELSE load_storage(storage_files, q)
    IN [k \in DOMAIN data |-> to_string(data[k])]

\* C9: a set, delete or clear made under one plugin id leaves what get, has,
\* keys and size answer under every other plugin id as it was, the same key
\* included.
C9_StorageIsolation ==
    [][\A p \in PluginIds, q \in PluginIds :
          (ret'[1].name \in {"set", "delete", "clear"} /\ ret'[1].p = p /\ q # p)
              => Observed(q)' = Observed(q)]_vars

C9_Witness ==
    /\ ret[1].name = "set"
    /\ ret[1].p = "p1"
    /\ ret[1].key = "k"
    /\ ret[1].err = Ok
    /\ "p2" \notin DOMAIN storage
    /\ Observed("p2") = ("k" :> "42.0")
    /\ Observed("p1") = ("k" :> "[1]")

\* the text get returns for a value that was set as the text raw
Encoding(raw) ==
    CASE raw = "v1" -> "\"v1\""
      [] raw = "\"v1\"" -> "\"v1\""
      [] raw = "42" -> "42.0"
      [] raw = "[1]" -> "[1]"

Standing(p, key) ==
    IF key \in DOMAIN latest[p] THEN Some(Encoding(latest[p][key])) ELSE None

\* C10 as stated: get(p, k) returns the encoding of the value of the latest
\* set(p, k, v) not followed by delete(p, k) or clear(p), None when there is
\* none; delete(p, k) returns true exactly when k was present; after
\* clear(p) the size is 0.
C10_LatestSetIsRead ==
    \A t \in DOMAIN ret :
        /\ ret[t].name = "get" => ret[t].out = Standing(ret[t].p, ret[t].key)
        /\ ret[t].name = "delete" => ret[t].out = ret[t].stood
        /\ ret[t].name = "clear" =>
             /\ ret[t].p \in DOMAIN storage
             /\ Cardinality(DOMAIN storage[ret[t].p]) = 0

\* C10, amended: the same for every non-empty key k; a set with the empty
\* key is rejected and stores nothing.
C10_LatestSetIsReadForNonEmptyKeys ==
    \A t \in DOMAIN ret :
        /\ (ret[t].name = "get" /\ ret[t].key # "") =>
             ret[t].out = Standing(ret[t].p, ret[t].key)
        /\ (ret[t].name = "delete" /\ ret[t].key # "") => ret[t].out = ret[t].stood
        /\ ret[t].name = "clear" =>
             /\ ret[t].p \in DOMAIN storage
             /\ Cardinality(DOMAIN storage[ret[t].p]) = 0
        /\ (ret[t].name = "set" /\ ret[t].key = "") =>
             /\ ret[t].err # Ok
             /\ ret[t].p \in DOMAIN storage => "" \notin DOMAIN storage[ret[t].p]

C10_Witness ==
    /\ ret[1].name = "get"
    /\ ret[1].key = "k"
    /\ ret[1].p = "p1"
    /\ ret[1].out = Some("42.0")
    /\ latest["p1"] = ("k" :> "42") @@ ("" :> "v1")
    /\ latest["p2"] = ("k" :> "v1")

\* C11: a new StorageAPI constructed over the same directory answers get,
\* for every plugin and every key, as the instance it replaces answered
\* after its last call.
C11_StorageSurvivesRestart ==
    [][ret'[1].name = "new" => \A p \in PluginIds : Observed(p)' = Observed(p)]_vars

C11_Witness ==
    /\ ret[1].name = "new"
    /\ storage = EmptyMap
    /\ latest["p1"] = ("k" :> "42") @@ ("j" :> "v1")
    /\ Observed("p1") = ("k" :> "42.0") @@ ("j" :> "\"v1\"")
    /\ Observed("p2") = ("k" :> "[1]")

\* C12: a PermissionManager constructed over the same AppData directory
\* holds, for every plugin, exactly the records the running instance holds:
\* every grant, request, revoke and revoke_all has rewritten the file.
C12_PermissionsSurviveRestart ==
    with_auto_approve(perm_file).permissions = permissions

C12_Witness ==
    /\ ret[1].name = "pm_new"
    /\ "p1" \in DOMAIN permissions
    /\ permissions["p1"] = <<>>
    /\ "p2" \in DOMAIN permissions
    /\ Len(permissions["p2"]) = 1
    /\ permissions["p2"][1].permission_type = "network.request"

\* the checks the claim allows in 60 seconds: 100, and 5% more
Tolerated == capacity + capacity \div 20

\* C13: in every window of 60 seconds the rate-limit checks admitted for a
\* plugin are at most 100, within a tolerance of 5%, also when the window
\* begins with a full bucket.
C13_AtMostCapacityPerWindow ==
    \A p \in PluginIds : window[p].open => window[p].admitted <= Tolerated

RateLimited == PermissionDenied("Rate limit exceeded (100 req/min)")

\* C14: of the checks made for a plugin from its first one on, with no time
\* going by, the first 100 are admitted and every later one is refused; a
\* request made on an empty bucket returns PermissionDenied with the
\* rate-limit message; a bucket never holds less than 0 tokens or more than
\* its capacity.
C14_BurstIsCutAtCapacity ==
    /\ \A p \in PluginIds :
          (window[p].open /\ window[p].first /\ window[p].elapsed = 0) =>
              /\ window[p].admitted <= capacity
              /\ window[p].refused => window[p].admitted = capacity
              /\ p \in DOMAIN rate_limiters =>
                    window[p].admitted = capacity - rate_limiters[p].tokens
    /\ \A p \in DOMAIN rate_limiters :
          /\ rate_limiters[p].tokens >= 0
          /\ rate_limiters[p].tokens <= capacity
    /\ \A t \in DOMAIN ret :
          (/\ ret[t].name = "request"
           /\ validate_network_permission(guard_permissions.permissions, ret[t].p,
                                          ret[t].req.url.host)
           /\ ret[t].before.present
           /\ ret[t].before.tokens = 0
           /\ ret[t].before.since = 0) => ret[t].err = RateLimited

C14_Witness ==
    /\ window["p2"].open
    /\ window["p2"].first
    /\ window["p2"].elapsed = 0
    /\ window["p2"].admitted = capacity
    /\ window["p2"].refused
    /\ ret[1].name = "request"
    /\ ret[1].err = RateLimited

\* whether a network scope admits a host: the scope is "*", or is the host,
\* or is "*.D" and the host is D or ends in "." followed by D
Admits(scope, host) ==
    \/ scope = Star
    \/ scope = host
    \/ /\ Len(scope) >= 2
       /\ scope[1] = "*"
       /\ scope[2] = "."
       /\ LET D == SubSeq(scope, 3, Len(scope))
          IN \/ host = D
             \/ /\ Len(host) > Len(D)
                /\ SubSeq(host, Len(host) - Len(D), Len(host)) = <<".">> \o D

\* C15: validate_network(p, host) answers true exactly when p holds a
\* granted network.request record whose scope admits the host.
C15_ValidateNetworkMatchesDomains ==
    \A t \in DOMAIN ret :
        ret[t].name = "pm_validate_network" =>
            ret[t].result =
                \E i \in 1..Len(Records(permissions, ret[t].p)) :
                    /\ permissions[ret[t].p][i].permission_type = "network.request"
                    /\ permissions[ret[t].p][i].granted
                    /\ Admits(permissions[ret[t].p][i].resource_scope, ret[t].domain)

\* the host that only ends with the domain of the pattern is refused
C15_Witness ==
    /\ ret[1].name = "pm_validate_network"
    /\ ret[1].p = "p1"
    /\ ret[1].domain = <<"n", "e", ".", "c">>
    /\ ~ret[1].result
    /\ Len(Records(permissions, "p1")) = 1
    /\ permissions["p1"][1].resource_scope = <<"*", ".", "e", ".", "c">>

\* C16: when the only read record of a plugin has the scope AppData/d/*, a
\* read the guard accepts is of the directory d or of a path below it, the
\* paths compared component by component.
C16_ScopeAdmitsDescendantsOnly ==
    \A t \in DOMAIN ret :
        (/\ ret[t].name \in {"read_file", "list_files", "exists"}
         /\ ret[t].accepted
         /\ Records(guard_permissions.permissions, ret[t].p)
               = <<PluginPermission(ScopeGrant[1], ScopeGrant[2])>>)
            => starts_with(ret[t].validated, resolve(fs, app_data_dir) \o <<"d">>)

\* C17: a network.request scope that is stored is "*", a host without the
\* character '*', or "*." followed by a host without '*'; a grant or a request
\* of any other network scope returns PermissionDenied and adds no record.
StorableDomain(scope) ==
    \/ scope = Star
    \/ ~contains(scope, "*")
    \/ starts_with(scope, <<"*", ".">>) /\ ~contains(SubSeq(scope, 3, Len(scope)), "*")

C17_NoInnerWildcardIsStored ==
    /\ \A p \in DOMAIN permissions : \A i \in 1..Len(permissions[p]) :
          permissions[p][i].permission_type = "network.request"
              => StorableDomain(permissions[p][i].resource_scope)
    /\ \A t \in DOMAIN ret :
          (/\ ret[t].name \in {"pm_grant", "pm_request"}
           /\ ret[t].permission_type = "network.request"
           /\ ~StorableDomain(ret[t].resource_scope))
              => ret[t].err.kind = "PermissionDenied"

\* C18: with auto_approve false, a request returns PermissionDenied and
\* leaves the records in memory and on disk as they were; an activation
\* changes no record either, and it succeeds only when every permission the
\* manifest declares was already held.
Declared(p) == IF p \in DOMAIN manifests THEN manifests[p].permissions ELSE <<>>

C18_DeniedWithoutApproval ==
    [][~auto_approve =>
        /\ (ret' # ret /\ ret'[1].name = "pm_request")
              => /\ ret'[1].err.kind = "PermissionDenied"
                 /\ permissions' = permissions
                 /\ perm_file' = perm_file
        /\ (pc[1] # "idle" /\ op[1].name \in {"activate", "rollback"})
              => /\ permissions' = permissions
                 /\ perm_file' = perm_file
        /\ (ret' # ret /\ ret'[1].name \in {"activate", "rollback"} /\ ret'[1].err = Ok)
              => \A i \in 1..Len(Declared(ret'[1].p)) :
                    has_permission(permissions, ret'[1].p, Declared(ret'[1].p)[i])
    ]_vars

C18_Witness ==
    /\ ~auto_approve
    /\ ret[1].name = "activate" /\ ret[1].err = Ok /\ ret[1].p = "p2"
    /\ Declared("p2") = <<PermNet>>
    /\ pc[1] = "idle"

\* C19: a grant or a request that validate_scope refuses (an empty scope, a
\* filesystem scope that is neither "*" nor below "AppData/", a domain
\* pattern is_valid_domain_pattern refuses), or whose permission type is
\* unknown, returns PermissionDenied and leaves the records of every plugin
\* and plugin-permissions.json as they were; it adds no audit entry, and so
\* none of the "request" entries the authorization writes when it approves.
Refused(permission_type, resource_scope) ==
    \/ permission_type = NoType
    \/ validate_scope(permission_type, resource_scope) # Ok

C19_RefusedScopeHasNoEffect ==
    [][(/\ ret' # ret
        /\ ret'[1].name \in {"pm_grant", "pm_request"}
        /\ Refused(ret'[1].permission_type, ret'[1].resource_scope))
          => /\ ret'[1].err.kind = "PermissionDenied"
             /\ permissions' = permissions
             /\ perm_file' = perm_file
             /\ audit_log' = <<>>
    ]_vars

C19_Witness ==
    /\ auto_approve
    /\ ret[1].name = "pm_request"
    /\ ret[1].permission_type = "network.request"
    /\ ret[1].resource_scope = <<"a", "b">>
    /\ ret[1].err = PermissionDenied("Invalid domain pattern")
    /\ \E p \in DOMAIN permissions : permissions[p] # <<>>
    /\ perm_file.exists

\* C20: a call of the filesystem guard that validate_path rejects leaves an
\* audit entry of the calling plugin whose result is false and which carries
\* an error message.
Rejections(entries, p) ==
    {i \in 1..Len(entries) : /\ entries[i].plugin_id = p
                             /\ ~entries[i].result
                             /\ entries[i].error_message # NoError}

C20_RejectionIsAudited ==
    \A t \in DOMAIN ret :
        (ret[t].name \in FsOperations /\ ~ret[t].accepted)
            => Rejections(guard_log.validation \o guard_log.audit, ret[t].p) # {}

\* C21: when a permission the manifest declares is not held and its request
\* is denied, activate_plugin returns an error of the kind ActivationError.
C21_DenialIsActivationError ==
    (/\ ~auto_approve
     /\ ret[1].name = "activate"
     /\ \E i \in 1..Len(Declared(ret[1].p)) :
           ~has_permission(permissions, ret[1].p, Declared(ret[1].p)[i]))
        => ret[1].err.kind = "ActivationError"

\* C22: activate_plugin called on a plugin whose state is neither Installed
\* nor Deactivated returns InvalidStateTransition; no step of the call
\* changes the plugin's state or runs the activate hook.
C22_ActivationFromOtherStateFails ==
    [][(/\ op[1].name = "activate" /\ pc[1] # "idle"
        /\ local[1].start \notin {NoPlugin, "Installed", "Deactivated"})
          => /\ plugins' = plugins
             /\ resources' = resources
             /\ pc[1] # "act_hook"
             /\ pc'[1] = "idle" => ret'[1].err.kind = "InvalidStateTransition"
    ]_vars

C22_Witness ==
    /\ ret[1].name = "activate" /\ ret[1].start = "Running"
    /\ ret[1].err = InvalidStateTransition("Running", "Loaded")
    /\ StateOf(plugins, ret[1].p) = "Running"

\* C23: deactivate_plugin returns Ok only for a plugin that was Running, and
\* then the plugin is Deactivated and has no tracked resource; called in any
\* other state it returns InvalidStateTransition and changes no state and no
\* tracked resource; no step of it changes the resources of another plugin.
C23_DeactivateOnlyWhenRunning ==
    [][(op[1].name = "deactivate" /\ pc[1] # "idle")
          => /\ \A q \in PluginIds \ {op[1].p} : resources'[q] = resources[q]
             /\ (local[1].start \notin {NoPlugin, "Running"})
                   => /\ plugins' = plugins
                      /\ resources' = resources
                      /\ pc'[1] = "idle" => ret'[1].err.kind = "InvalidStateTransition"
             /\ (pc'[1] = "idle" /\ ret'[1].err = Ok)
                   => /\ local[1].start = "Running"
                      /\ StateOf(plugins', op[1].p) = "Deactivated"
                      /\ resources'[op[1].p] = {}
    ]_vars

C23_Witness ==
    /\ ret[1].name = "deactivate" /\ ret[1].err = Ok /\ ret[1].start = "Running"
    /\ StateOf(plugins, ret[1].p) = "Deactivated"
    /\ resources[ret[1].p] = {}
    /\ \E q \in PluginIds : resources[q] # {}

\* the plugins a set of plugins depends on, directly and through others
DependenciesOf(p) == IF p \in DOMAIN manifests THEN Range(manifests[p].dependencies) ELSE {}

RECURSIVE Closure(_)
Closure(S) ==
    LET T == S \cup UNION {DependenciesOf(q) : q \in S}
    IN IF T = S THEN S ELSE Closure(T)

Reachable(p) == Closure({p})

Cyclic(p) == \E q \in Reachable(p) : q \in Closure(DependenciesOf(q))

Position(order, q) == CHOOSE i \in 1..Len(order) : order[i] = q

\* C24: for a registered plugin whose reachable dependencies are all
\* registered and form no cycle, resolve_dependencies returns the plugin and
\* the plugins reachable from it, each once and nothing else, every plugin
\* after its dependencies and the plugin itself last.
C24_OrderIsTopological ==
    \A t \in DOMAIN ret :
        (/\ ret[t].name = "resolve"
         /\ Reachable(ret[t].p) \subseteq DOMAIN manifests
         /\ ~Cyclic(ret[t].p))
            => /\ ret[t].err = Ok
               /\ Range(ret[t].order) = Reachable(ret[t].p)
               /\ Len(ret[t].order) = Cardinality(Reachable(ret[t].p))
               /\ ret[t].order[Len(ret[t].order)] = ret[t].p
               /\ \A q \in Reachable(ret[t].p) : \A d \in DependenciesOf(q) :
                     Position(ret[t].order, d) < Position(ret[t].order, q)

C24_Witness ==
    /\ ret[1].name = "resolve" /\ ret[1].err = Ok
    /\ ret[1].order = <<"c", "b", "a">>
    /\ manifests["a"].dependencies = <<"b", "c">>
    /\ manifests["b"].dependencies = <<"c">>

Latest == CHOOSE d \in logged_days : \A e \in logged_days : e <= d

C26_FilesOfLastThirtyDays ==
    logged_days # {} =>
        log_files = {format(d) : d \in {e \in logged_days : Latest - e <= retention}}

C26_Witness ==
    /\ logged_days # {}
    /\ \E d \in logged_days : Latest - d = retention
    /\ \E d \in logged_days : Latest - d > retention
    /\ \E d \in logged_days : format(d)[4] # format(Latest)[4]

\* what the file system holds outside the AppData directory
OutsideAppData(f) ==
    [dirs |-> {d \in f.dirs : ~starts_with(d, app_data_dir)},
     files |-> {d \in f.files : ~starts_with(d, app_data_dir)},
     links |-> {d \in DOMAIN f.links : ~starts_with(d, app_data_dir)}]

\* C27: no step of an installation from an archive and no call of the
\* filesystem guard creates or deletes a file or a directory outside the
\* AppData directory.
C27_NothingOutsideAppDataChanges ==
    [][OutsideAppData(fs') = OutsideAppData(fs)]_vars


\* C28: activate_plugin asks for the permissions its manifest declares before
\* it makes any state transition: up to and including the permission step no
\* plugin state, tracked resource or activation order changes, a denial is
\* returned from that step only, and the call that returns it leaves p in
\* the state it had at the call, with the activate hook not run.
C28_PermissionsBeforeTransition ==
    [][/\ (pc[1] \in {"act_manifest", "act_perms"})
            => /\ plugins' = plugins
               /\ resources' = resources
               /\ activation_order' = activation_order
       /\ (/\ ret' # ret
           /\ ret'[1].name = "activate"
           /\ ret'[1].err.kind = "PermissionDenied")
            => /\ pc[1] = "act_perms"
               /\ trace'[1] = <<>>
               /\ StateOf(plugins', ret'[1].p) = ret'[1].start
               /\ ret'[1].hook_state = NoPlugin
               /\ ret'[1].start = "Installed"
                    => ret'[1].p \notin Range(activation_order')
    ]_vars

\* an activation of p1, which holds one of its two declared permissions,
\* was denied the other
C28_Witness ==
    /\ ret[1].name = "activate" /\ ret[1].p = "p1"
    /\ ret[1].err.kind = "PermissionDenied"
    /\ ret[1].start = "Installed"
    /\ has_permission(permissions, "p1", PermFsRead)
    /\ ~has_permission(permissions, "p1", PermNet)
    /\ resources["p1"] = {}

\* C29: one NetworkProxy.request asks the whitelist, then takes a token,
\* then looks in the cache, then sends: a request the whitelist refuses, or
\* whose URL does not parse, leaves every bucket and the cache as they were;
\* a request made with no token left is refused whatever the cache holds and
\* leaves the cache as it was; a response, from the cache or from the
\* network, comes after one token was taken.
Held(before) ==
    IF before.present THEN Min(before.tokens + before.since * refill_rate, capacity)
    ELSE capacity

WhitelistRejections ==
    { PermissionDenied("Invalid URL"), PermissionDenied("URL has no host"),
      PermissionDenied("No network permission for domain") }

RateLimitExceeded == PermissionDenied("Rate limit exceeded (100 req/min)")

C29_WhitelistThenTokenThenCache ==
    [][(ret' # ret /\ ret'[1].name = "request") =>
        LET r == ret'[1]
            held == Held(StoredBucket(rate_limiters, r.p))
            after == StoredBucket(rate_limiters', r.p)
        IN /\ (~r.req.url.parses \/ r.req.url.host = <<"x", ".", "y">>)
                 => r.err \in WhitelistRejections
           /\ r.err \in WhitelistRejections
                 => rate_limiters' = rate_limiters /\ cache' = cache
           /\ r.err \notin WhitelistRejections
                 => /\ after.present
                    /\ after.tokens = IF held >= 1 THEN held - 1 ELSE held
                    /\ held < 1 <=> r.err = RateLimitExceeded
           /\ r.err = RateLimitExceeded => cache' = cache /\ r.source = "none"
           /\ r.source \in {"cache", "network"} => after.tokens = held - 1
    ]_vars

\* a GET was answered from the cache and took the last token of the bucket
C29_Witness ==
    /\ ret[1].name = "request" /\ ret[1].source = "cache"
    /\ ret[1].req.method = "GET"
    /\ ret[1].before.present /\ Held(ret[1].before) = 1
    /\ rate_limiters[ret[1].p].tokens = 0

\* C30: a response comes from the cache only for a GET whose key has an
\* entry younger than default_cache_ttl, and is that entry's response; an
\* entry appears or is renewed only when a GET is answered by the network with
\* status 200, and holds that response; a GET that gets as far as the cache
\* and finds an entry as old as default_cache_ttl goes to the network, and
\* the entry is gone unless the network answers 200; a request with another
\* method leaves the cache as it was, and so does a GET answered with
\* another status when the key had no expired entry.
C30_CacheServesFresh200Gets ==
    [][/\ \A k \in DOMAIN cache' :
             (k \notin DOMAIN cache \/ cache'[k].age < cache[k].age)
                => /\ ret'[1].name = "request"
                   /\ ret'[1].req.method = "GET"
                   /\ k = cache_key(ret'[1].req)
                   /\ ret'[1].source = "network"
                   /\ ret'[1].response.status = 200
                   /\ cache'[k] = [response |-> ret'[1].response, age |-> 0]
       /\ (ret' # ret /\ ret'[1].name = "request") =>
            LET r == ret'[1]
                k == cache_key(r.req)
                reached == r.err \notin WhitelistRejections \cup {RateLimitExceeded}
            IN /\ r.source = "cache"
                    => /\ r.req.method = "GET"
                       /\ k \in DOMAIN cache
                       /\ cache[k].age < ticks(default_cache_ttl)
                       /\ r.response = cache[k].response
                       /\ r.response.status = 200
                       /\ cache' = cache
               /\ (r.req.method = "GET" /\ reached /\ k \in DOMAIN cache
                     /\ cache[k].age >= ticks(default_cache_ttl))
                    => /\ r.source # "cache"
                       /\ k \in DOMAIN cache' => cache'[k].age = 0
               /\ r.req.method # "GET" => cache' = cache /\ r.source # "cache"
               /\ (r.source = "network" /\ r.response.status # 200)
                    => /\ k \notin DOMAIN cache'
                       /\ \A other \in DOMAIN cache : other # k => other \in DOMAIN cache'
    ]_vars

\* a GET was answered from an entry one tick short of default_cache_ttl
C30_Witness ==
    /\ ret[1].name = "request" /\ ret[1].source = "cache"
    /\ cache_key(ret[1].req) \in DOMAIN cache
    /\ cache[cache_key(ret[1].req)].age = ticks(default_cache_ttl) - 1

\* C31: a response that comes from the cache was given by the server to a
\* request with the same Authorization value (or with none, when the request
\* has none), whatever the capitalisation of the header name.
C31_CacheKeepsCredentialsApart ==
    (ret[1].name = "request" /\ ret[1].source = "cache")
        => ret[1].response.body =
              (IF authorization(ret[1].req.headers) = NoCredential THEN "b"
               ELSE authorization(ret[1].req.headers))

\* C32: a call of NetworkProxy.request that has returned, with a response or
\* with an error, has left an audit entry of the calling plugin whose action
\* is the method of the request and whose result is the success of the call.
C32_EveryRequestIsAudited ==
    ret[1].name = "request" =>
        \E i \in 1..Len(guard_log.validation \o guard_log.audit) :
           LET entry == (guard_log.validation \o guard_log.audit)[i]
           IN /\ entry.plugin_id = ret[1].p
              /\ entry.action = ret[1].req.method
              /\ entry.result = (ret[1].err = Ok)

\* C33: once deactivate_plugin(p) or uninstall_plugin(p) has returned with
\* success, the guard holds no watcher of p.
C33_DeactivationDropsWatchers ==
    (/\ pc[1] = "idle"
     /\ ret[1].name \in {"deactivate", "uninstall"}
     /\ ret[1].err = Ok)
        => ret[1].p \notin DOMAIN watchers

\* C34: once uninstall_plugin(p) has returned with success, no storage entry
\* of p is left: get(p, k) finds nothing for any key, in the StorageAPI in
\* use and in one constructed afterwards over the same directory.
C34_UninstallRemovesStorage ==
    (/\ pc[1] = "idle"
     /\ ret[1].name = "uninstall"
     /\ ret[1].err = Ok)
        => /\ DOMAIN Observed(ret[1].p) = {}
           /\ DOMAIN load_storage(storage_files, ret[1].p) = {}

\* C35: revoke_permission(p, t) leaves p no record of type t, so that
\* has_permission(p, "t:s") is false for every scope s, leaves p's records of
\* the other types and the records of every other plugin as they were;
\* revoke_all_permissions(p) leaves p no record and the records of every other
\* plugin as they were; after both plugin-permissions.json holds the
\* resulting records.
OfType(records, t) == SelectSeq(records, LAMBDA r : r.permission_type = t)
NotOfType(records, t) == SelectSeq(records, LAMBDA r : r.permission_type # t)

AskedScopes(records) ==
    {Star, <<"a", ".", "e", ".", "c">>, AppDataSlash \o <<"p", "/", "f">>}
        \cup {records[i].resource_scope : i \in 1..Len(records)}

C35_RevokeRemovesTypeOnly ==
    [][/\ (ret' # ret /\ ret'[1].name = "pm_revoke") =>
            LET p == ret'[1].p
                t == ret'[1].permission_type
            IN /\ ret'[1].err = Ok
               /\ OfType(Records(permissions', p), t) = <<>>
               /\ \A s \in AskedScopes(Records(permissions, p)) :
                     ~has_permission(permissions', p, <<t, ":">> \o s)
               /\ NotOfType(Records(permissions', p), t)
                     = NotOfType(Records(permissions, p), t)
               /\ \A q \in PluginIds \ {p} :
                     Records(permissions', q) = Records(permissions, q)
               /\ perm_file'.exists /\ load(perm_file') = permissions'
       /\ (ret' # ret /\ ret'[1].name = "pm_revoke_all") =>
            LET p == ret'[1].p
            IN /\ ret'[1].err = Ok
               /\ Records(permissions', p) = <<>>
               /\ \A q \in PluginIds \ {p} :
                     Records(permissions', q) = Records(permissions, q)
               /\ perm_file'.exists /\ load(perm_file') = permissions'
    ]_vars

\* the network records of p1 were revoked: its filesystem record and the
\* records of p2 are still held
C35_Witness ==
    /\ ret[1].name = "pm_revoke" /\ ret[1].p = "p1"
    /\ ret[1].permission_type = "network.request"
    /\ Len(Records(permissions, "p1")) = 1
    /\ has_permission(permissions, "p1", PermFsRead)
    /\ Len(Records(permissions, "p2")) = 3

\* C36: while no PluginManager call is in progress every registered plugin
\* is Installed, Running or Deactivated; a plugin that was uninstalled is not
\* in the registry.
C36_StatesBetweenCalls ==
    (\A t \in DOMAIN pc : pc[t] = "idle")
        => /\ \A p \in DOMAIN plugins :
                plugins[p].state \in {"Installed", "Running", "Deactivated"}
           /\ DOMAIN plugins = DOMAIN manifests
           /\ \A t \in DOMAIN ret :
                (ret[t].name = "uninstall" /\ ret[t].err = Ok)
                    => StateOf(plugins, ret[t].p) = NoPlugin

\* no call is in progress; one plugin runs and the other was deactivated
C36_Witness ==
    /\ \A t \in DOMAIN pc : pc[t] = "idle"
    /\ \E p, q \in DOMAIN plugins :
          plugins[p].state = "Running" /\ plugins[q].state = "Deactivated"
    /\ ret[1].name = "activate" /\ ret[1].err # Ok

\* C37: activate_plugin_with_rollback(p) called while p is Running returns
\* an error and leaves p Running, with the resources of its activate hook
\* still tracked.
C37_RollbackSparesRunningPlugin ==
    (/\ pc[1] = "idle"
     /\ ret[1].name = "rollback"
     /\ ret[1].start = "Running")
        => /\ ret[1].err # Ok
           /\ StateOf(plugins, ret[1].p) = "Running"
           /\ resources[ret[1].p] = Contributions(manifests[ret[1].p])

\* C38: once two concurrent calls of activate_plugin_with_rollback(p) on an
\* Installed plugin have both returned, exactly one has succeeded, p is
\* Running, and p is not Installed with resources of the activate hook
\* tracked.
C38_OneConcurrentActivationWins ==
    (\A t \in RaceThreads : pc[t] = "idle" /\ ret[t].name = "rollback")
        => /\ Cardinality({t \in RaceThreads : ret[t].err = Ok}) = 1
           /\ StateOf(plugins, "p1") = "Running"
           /\ ~(StateOf(plugins, "p1") = "Installed" /\ resources["p1"] # {})

\* C39: when every set, delete and clear call that two threads made on a
\* plugin has returned, the plugin's storage.json holds the map in memory,
\* every value as it is serialized.
Written(p) ==
    IF get_storage_path(p) \in DOMAIN storage_files
    THEN storage_files[get_storage_path(p)] ELSE EmptyMap

C39_FileEqualsMapAtRest ==
    (\A t \in DOMAIN pc : pc[t] = "idle")
        => \A p \in DOMAIN storage :
              Written(p) = [k \in DOMAIN storage[p] |-> to_string(storage[p][k])]

\* both threads have returned from overlapping calls, a delete and a set of
\* another key, and the file holds the key that was set
C39_Witness ==
    /\ pc[1] = "idle" /\ pc[2] = "idle"
    /\ ret[1].name = "delete" /\ ret[2].name = "set"
    /\ DOMAIN Written("p1") = {"j"}

\* C40: write_file calls that two threads make on different targets of one
\* directory do not interfere: a call the guard accepted returns success,
\* and when it returns the target holds the contents passed to it.
C40_WritesOnDistinctTargetsApart ==
    [][\A t \in DOMAIN ret :
          (ret'[t] # ret[t] /\ ret'[t].name = "write_file" /\ ret'[t].accepted)
             => /\ ret'[t].err = Ok
                /\ fs'.contents[ret'[t].validated] = ret'[t].contents]_vars
=============================================================================
